---- MODULE Spec2Model ----
(***************************************************************************)
(* tcp_typed: the typed TCP connection state machine.                      *)
(*                                                                         *)
(* One connection (the umbrella enum Connection of src/src/connection.rs   *)
(* over the state structs of src/src/connection_states.rs), the Notifier   *)
(* it is given, the table of file descriptors of the process, and the      *)
(* kernel socket behind the connection's current FD together with the      *)
(* peer at the other end.                                                  *)
(*                                                                         *)
(* Every state method (poll, close, kill, recv, send) is an operator from  *)
(* a world record to a world record, written in the order of the source;   *)
(* an action applies one umbrella method to the current world.  The        *)
(* kernel's answers that the program cannot predict (SO_ERROR, a failing   *)
(* write, read or shutdown, the result of connect) are inputs of the       *)
(* action.                                                                 *)
(***************************************************************************)
EXTENDS Integers, Sequences, FiniteSets, TLC

\* ------------------------------------------------------------------ bounds
\* Capacity of a ring (lib.rs: 64 * 1024), scaled down.
BUF == 2
\* Capacity of the kernel send buffer of a socket (bytes written, not acked).
SndBuf == 1
\* Capacity of the kernel receive buffer of a socket.
RcvBuf == 1
\* Bytes the user passes to send over the life of the connection.
MaxSend == 2
\* Bytes the peer sends over the life of the connection.
MaxPeerSend == 2
\* File descriptors the process creates over the life of the connection.
MaxFds == 3
\* Iterations of the Connecter loop whose kernel answers one poll enumerates.
MaxLoop == 3
\* Instants added to the notifier and not yet fired.
MaxInstants == 2
\* Polls requested by queue() and not yet made.
MaxQueued == 2

\* Connections that arrive at the listening socket over its life.
MaxArrive == 2
\* Descriptors the other process sends over the forwarding channel.
MaxForward == 2

\* Connecter / ConnecterLocalClosed: assert!(count < 1_000)
RetryCap == 1000

Fds == 1..MaxFds

Min(a, b) == IF a <= b THEN a ELSE b

\* --------------------------------------------------------------- the state
VARIABLES
    conn,      \* the umbrella Connection value (or the stage before it exists)
    kern,      \* the kernel socket behind conn's FD, and the peer
    fdt,       \* the process's descriptors: which are open, how often closed
    notif,     \* the Notifier: registered FDs, instants, queued polls, edge
    hist,      \* bytes passed to send, returned by recv, sent by the peer
    panicked,  \* "none", or the message of the panic that ended the program
    last,      \* the last operation and what it returned
    peer,      \* the world of the connection at the other end, when it is one
    listener,  \* the Listener, the descriptors it is offered, what it made of them
    loop_count \* count, the loop counter of the Connecter poll in progress

vars == <<conn, kern, fdt, notif, hist, panicked, last, peer, listener, loop_count>>

\* Option<CircularBuffer<u8>>
NoRing == [some |-> FALSE, buf |-> <<>>]
Ring(s) == [some |-> TRUE, buf |-> s]

\* A value of the enum Connection.  fd = 0 is None / no descriptor.
Variant(tag, fd, send, recv, rc, lcg) ==
    [tag |-> tag, fd |-> fd, send |-> send, recv |-> recv,
     remote_closed |-> rc, local_closed_given |-> lcg]

Closed == Variant("Closed", 0, NoRing, NoRing, FALSE, FALSE)
Killed == Variant("Killed", 0, NoRing, NoRing, FALSE, FALSE)

\* A socket just created: not connected, nothing buffered either way.
FreshSocket ==
    [established |-> FALSE, inbuf |-> <<>>, fin |-> FALSE,
     outbuf |-> <<>>, delivered |-> <<>>, shutdowns |-> 0,
     shut_nonempty |-> FALSE, wrote_after_shut |-> FALSE, reset |-> FALSE]

\* The world a method runs in.
World == [conn |-> conn, kern |-> kern, fdt |-> fdt, notif |-> notif,
          panicked |-> panicked]

Ret(w, c) == [w EXCEPT !.conn = c]

\* A panic inside Connection::poll / close / kill: mem::replace has left
\* Connection::Killed in the umbrella value, and the program ends.
Panic(w, msg) == [w EXCEPT !.panicked = msg, !.conn = Killed]

\* ---------------------------------------------------- Notifier and kernel
\* Every system call on a descriptor: recorded when the descriptor is not open.
Use(w, f) ==
    IF f \in w.fdt.open THEN w
    ELSE [w EXCEPT !.fdt.misuse = @ \cup {"use_after_close"}]

remove_fd(w, f) ==
    [w EXCEPT !.notif.fds = @ \ {f}, !.notif.removes[f] = @ + 1,
              !.notif.edge = FALSE]

add_fd(w, f) ==
    [w EXCEPT !.notif.fds = @ \cup {f}, !.notif.adds[f] = @ + 1]

queue(w) == [w EXCEPT !.notif.queued = @ + 1]

\* A slip: no instant is added.
add_instant_never(w) == w

add_instant(w) == [w EXCEPT !.notif.instants = @ + 1]

\* unistd::close(fd).unwrap()
close(w, f) ==
    IF f \in w.fdt.open
    THEN [w EXCEPT !.fdt.open = @ \ {f}, !.fdt.closes[f] = @ + 1]
    ELSE [w EXCEPT !.fdt.misuse = @ \cup {"double_close"},
                   !.fdt.closes[f] = @ + 1]

\* palaver::socket::unreceived / unsent
unreceived(w) == Len(w.kern.inbuf)
unsent(w) == Len(w.kern.outbuf)

\* socket::shutdown(fd, Shutdown::Write) returning Ok(())
shutdown(w, f) ==
    [Use(w, f) EXCEPT !.kern.shutdowns = @ + 1,
                      !.kern.shut_nonempty = @ \/ Len(w.conn.send.buf) > 0]

\* ------------------------------------------------------------ the rings
read_available(r) == Len(r.buf)
write_available(r) == BUF - Len(r.buf)

\* CircularBuffer::read_to_fd returning Ok: the ring's oldest bytes go to the
\* socket, as many as the kernel send buffer takes.
read_to_fd(w) ==
    LET n == Min(Len(w.conn.send.buf), SndBuf - Len(w.kern.outbuf))
        u == Use(w, w.conn.fd)
    IN [u EXCEPT !.kern.outbuf = @ \o SubSeq(w.conn.send.buf, 1, n),
                 !.kern.wrote_after_shut =
                     @ \/ (n > 0 /\ w.kern.shutdowns > 0),
                 !.conn.send.buf = SubSeq(@, n + 1, Len(@))]

\* CircularBuffer::write_from_fd returning Ok((read, eof)): the socket's
\* bytes go to the ring while it has room; eof when a read returned 0.
write_from_fd_n(w) == Min(Len(w.kern.inbuf), BUF - Len(w.conn.recv.buf))

write_from_fd_eof(w) ==
    /\ w.kern.fin
    /\ write_from_fd_n(w) = Len(w.kern.inbuf)
    /\ Len(w.conn.recv.buf) + write_from_fd_n(w) < BUF

\* A slip: the bytes copied to the ring stay in the socket.
write_from_fd_keeps(w) ==
    LET n == write_from_fd_n(w)
        u == Use(w, w.conn.fd)
    IN [u EXCEPT !.conn.recv.buf = @ \o SubSeq(w.kern.inbuf, 1, n)]

write_from_fd(w) ==
    LET n == write_from_fd_n(w)
        u == Use(w, w.conn.fd)
    IN [u EXCEPT !.conn.recv.buf = @ \o SubSeq(w.kern.inbuf, 1, n),
                 !.kern.inbuf = SubSeq(@, n + 1, Len(@))]

\* ------------------------------------------------------------ the faults
\* The system call of one poll that fails, named by the state whose poll
\* makes it; every call before it in the poll succeeds.  A poll returns at
\* its first failure (or, for a connecting state, discards the socket), so
\* one failing call per poll covers every outcome.
NoFault == <<"none", "none">>
Faults ==
    { NoFault,
      <<"Connectee", "so_error">>, <<"ConnecteeLocalClosed", "so_error">>,
      <<"ConnecterLocalClosed", "so_error">>,
      <<"Connected", "write">>, <<"Connected", "read">>,
      <<"RemoteClosed", "write">>,
      <<"LocalClosed", "so_error">>, <<"LocalClosed", "write">>,
      <<"LocalClosed", "read">>, <<"LocalClosed", "shutdown">>,
      <<"Closing", "write">>, <<"Closing", "shutdown">> }

\* ------------------------------------------------------------------ kill
\* Connecter::kill
Connecter_kill(w) ==
    IF w.conn.fd # 0 THEN close(remove_fd(w, w.conn.fd), w.conn.fd) ELSE w

\* ConnecterLocalClosed::kill
ConnecterLocalClosed_kill(w) ==
    IF w.conn.fd # 0 THEN close(remove_fd(w, w.conn.fd), w.conn.fd) ELSE w

\* Connectee::kill
Connectee_kill(w) == close(remove_fd(w, w.conn.fd), w.conn.fd)

\* ConnecteeLocalClosed::kill
ConnecteeLocalClosed_kill(w) == close(remove_fd(w, w.conn.fd), w.conn.fd)

\* Connected::kill: remove_fd, close, both rings taken
Connected_kill(w) ==
    LET k == close(remove_fd(w, w.conn.fd), w.conn.fd)
    IN IF w.conn.send.some /\ w.conn.recv.some
       THEN [k EXCEPT !.conn.send = NoRing, !.conn.recv = NoRing]
       ELSE Panic(k, "unwrap on None")

\* LocalClosed::kill: remove_fd, close, both rings taken
LocalClosed_kill(w) ==
    LET k == close(remove_fd(w, w.conn.fd), w.conn.fd)
    IN IF w.conn.send.some /\ w.conn.recv.some
       THEN [k EXCEPT !.conn.send = NoRing, !.conn.recv = NoRing]
       ELSE Panic(k, "unwrap on None")

\* RemoteClosed::kill: remove_fd, close, the send ring taken
RemoteClosed_kill(w) ==
    LET k == close(remove_fd(w, w.conn.fd), w.conn.fd)
    IN IF w.conn.send.some
       THEN [k EXCEPT !.conn.send = NoRing]
       ELSE Panic(k, "unwrap on None")

\* Closing::kill: remove_fd, close, the send ring taken
Closing_kill(w) ==
    LET k == close(remove_fd(w, w.conn.fd), w.conn.fd)
    IN IF w.conn.send.some
       THEN [k EXCEPT !.conn.send = NoRing]
       ELSE Panic(k, "unwrap on None")

\* self.kill(executor); return XPoll::Killed
KilledBy(k) == IF k.panicked = "none" THEN Ret(k, Killed) ELSE k

\* --------------------------------------------------------------- Closing
\* A slip: Closing does not wait for the kernel to report unsent == 0.
Closing_drained_nowait(w) == TRUE

\* Closing::poll: palaver::socket::unsent(self.fd) == 0
Closing_drained(w) == unsent(w) = 0

\* A slip: the FD is closed but left with the notifier.
Closing_complete_registered(w) == Ret(close(w, w.conn.fd), Closed)

\* Closing::poll, the arm of unsent == 0: remove_fd, close, the send ring
\* taken, ClosingPoll::Closed.
Closing_complete(w) ==
    Ret(close(remove_fd(w, w.conn.fd), w.conn.fd), Closed)

\* A slip: shutdown(WRITE) does not wait for the send ring to empty.
Closing_finish_early(w, flt) ==
    LET c == w.conn
        doShut == ~c.local_closed_given
    IN IF doShut /\ flt = <<"Closing", "shutdown">>
       THEN KilledBy(Closing_kill(Use(w, c.fd)))
       ELSE
         LET w2 == IF doShut
                   THEN [shutdown(w, c.fd) EXCEPT !.conn.local_closed_given = TRUE]
                   ELSE w
         IN IF w2.conn.local_closed_given
            THEN IF Closing_drained(w2)
                 THEN Closing_complete(Use(w2, c.fd))
                 ELSE add_instant(Use(w2, c.fd))
            ELSE w2

\* Closing::poll, from the shutdown test on: w has flushed the send ring.
Closing_finish(w, flt) ==
    LET c == w.conn
        doShut == ~c.local_closed_given /\ read_available(c.send) = 0
    IN IF doShut /\ flt = <<"Closing", "shutdown">>
       THEN KilledBy(Closing_kill(Use(w, c.fd)))
       ELSE
         LET w2 == IF doShut
                   THEN [shutdown(w, c.fd) EXCEPT !.conn.local_closed_given = TRUE]
                   ELSE w
         IN IF w2.conn.local_closed_given
            THEN IF Closing_drained(w2)
                 THEN Closing_complete(Use(w2, c.fd))
                 ELSE add_instant(Use(w2, c.fd))
            ELSE w2

\* A slip: the send ring is not flushed to the FD.
Closing_poll_noflush(w, flt) ==
    IF unreceived(w) # 0
    THEN Panic(Use(w, w.conn.fd), "assertion failed: unreceived == 0")
    ELSE IF flt = <<"Closing", "write">>
    THEN KilledBy(Closing_kill(Use(w, w.conn.fd)))
    ELSE Closing_finish(w, flt)

\* Closing::poll
Closing_poll(w, flt) ==
    IF unreceived(w) # 0
    THEN Panic(Use(w, w.conn.fd), "assertion failed: unreceived == 0")
    ELSE IF flt = <<"Closing", "write">>
    THEN KilledBy(Closing_kill(Use(w, w.conn.fd)))
    ELSE Closing_finish(read_to_fd(w), flt)

\* Closing::new(fd, send, local_closed_given, executor, remote)
Closing_new(w, fd, send, lcg, flt) ==
    Closing_poll(Ret(w, Variant("Closing", fd, Ring(send), NoRing, FALSE, lcg)), flt)

\* ---------------------------------------------------------- RemoteClosed
RemoteClosed_poll(w, flt) ==
    IF unreceived(w) # 0
    THEN Panic(Use(w, w.conn.fd), "assertion failed: unreceived == 0")
    ELSE IF flt = <<"RemoteClosed", "write">>
    THEN KilledBy(RemoteClosed_kill(Use(w, w.conn.fd)))
    ELSE read_to_fd(w)

\* RemoteClosed::new(fd, send, executor, remote)
RemoteClosed_new(w, fd, send, flt) ==
    RemoteClosed_poll(
        Ret(w, Variant("RemoteClosed", fd, Ring(send), NoRing, FALSE, FALSE)), flt)

\* RemoteClosed::close
RemoteClosed_close(w, flt) ==
    Closing_new(w, w.conn.fd, w.conn.send.buf, FALSE, flt)

\* ----------------------------------------------------------- LocalClosed
\* A slip: the unread bytes of the recv ring are not looked at.
LocalClosed_stays_unread(c) == ~c.remote_closed

\* LocalClosed::poll, the last test: stay, or hand the FD and the send ring
\* to Closing and let go of the recv ring.
LocalClosed_stays(c) == ~c.remote_closed \/ read_available(c.recv) > 0

\* A slip: Closing is not told that shutdown(WRITE) was already issued.
LocalClosed_promote_forgets(w, flt) ==
    IF LocalClosed_stays(w.conn)
    THEN w
    ELSE Closing_new(w, w.conn.fd, w.conn.send.buf, FALSE, flt)

LocalClosed_promote(w, flt) ==
    IF LocalClosed_stays(w.conn)
    THEN w
    ELSE Closing_new(w, w.conn.fd, w.conn.send.buf, w.conn.local_closed_given, flt)

\* A slip: shutdown(WRITE) is never found due.
LocalClosed_shuts_never(c) == FALSE

\* LocalClosed::poll, the shutdown step.
LocalClosed_shuts(c) == ~c.local_closed_given /\ read_available(c.send) = 0

LocalClosed_shutdown(w, flt) ==
    IF LocalClosed_shuts(w.conn)
    THEN IF flt = <<"LocalClosed", "shutdown">>
         THEN KilledBy(LocalClosed_kill(Use(w, w.conn.fd)))
         ELSE LocalClosed_promote(
                  [shutdown(w, w.conn.fd) EXCEPT !.conn.local_closed_given = TRUE],
                  flt)
    ELSE LocalClosed_promote(w, flt)

\* LocalClosed::poll, the read step.
LocalClosed_read(w, flt) ==
    IF ~w.conn.remote_closed
    THEN IF flt = <<"LocalClosed", "read">>
         THEN KilledBy(LocalClosed_kill(Use(w, w.conn.fd)))
         ELSE LocalClosed_shutdown(
                  [write_from_fd(w) EXCEPT
                      !.conn.remote_closed = write_from_fd_eof(w)], flt)
    ELSE LocalClosed_shutdown(w, flt)

\* LocalClosed::poll, the flush step.
LocalClosed_flush(w, flt) ==
    IF ~w.conn.local_closed_given
    THEN IF flt = <<"LocalClosed", "write">>
         THEN KilledBy(LocalClosed_kill(Use(w, w.conn.fd)))
         ELSE LocalClosed_read(read_to_fd(w), flt)
    ELSE LocalClosed_read(w, flt)

LocalClosed_poll(w, flt) ==
    IF w.conn.local_closed_given /\ w.conn.remote_closed
    THEN IF flt = <<"LocalClosed", "so_error">>
         THEN KilledBy(LocalClosed_kill(Use(w, w.conn.fd)))
         ELSE LocalClosed_flush(Use(w, w.conn.fd), flt)
    ELSE LocalClosed_flush(w, flt)

\* LocalClosed::new(fd, send, recv, remote_closed, executor, remote)
LocalClosed_new(w, fd, send, recv, rc, flt) ==
    LocalClosed_poll(
        Ret(w, Variant("LocalClosed", fd, Ring(send), Ring(recv), rc, FALSE)), flt)

\* ------------------------------------------------------------- Connected
\* A slip: the unread bytes of the recv ring are not looked at.
Connected_stays_unread(c) == ~c.remote_closed

\* Connected::poll, the last test: stay, or hand the FD and the send ring to
\* RemoteClosed and let go of the recv ring.
Connected_stays(c) == ~c.remote_closed \/ read_available(c.recv) > 0

\* A slip: the send ring is not handed to RemoteClosed.
Connected_promote_drops(w, flt) ==
    IF Connected_stays(w.conn)
    THEN w
    ELSE RemoteClosed_new(w, w.conn.fd, <<>>, flt)

\* Connected::poll, the else arm of the last test: RemoteClosed::new
Connected_promote(w, flt) ==
    IF Connected_stays(w.conn)
    THEN w
    ELSE RemoteClosed_new(w, w.conn.fd, w.conn.send.buf, flt)

\* Connected::poll, the read step.
Connected_read(w, flt) ==
    IF ~w.conn.remote_closed
    THEN IF flt = <<"Connected", "read">>
         THEN KilledBy(Connected_kill(Use(w, w.conn.fd)))
         ELSE Connected_promote(
                  [write_from_fd(w) EXCEPT
                      !.conn.remote_closed = write_from_fd_eof(w)], flt)
    ELSE Connected_promote(w, flt)

\* A slip: the FD is read before the send ring is flushed.
Connected_poll_reads_first(w, flt) ==
    IF flt = <<"Connected", "write">>
    THEN KilledBy(Connected_kill(Use(write_from_fd(w), w.conn.fd)))
    ELSE Connected_read(read_to_fd(w), flt)

\* Connected::poll
Connected_poll(w, flt) ==
    IF flt = <<"Connected", "write">>
    THEN KilledBy(Connected_kill(Use(w, w.conn.fd)))
    ELSE Connected_read(read_to_fd(w), flt)

\* Connected::new(fd, executor, remote)
Connected_new(w, fd, flt) ==
    Connected_poll(
        Ret(w, Variant("Connected", fd, Ring(<<>>), Ring(<<>>), FALSE, FALSE)), flt)

\* Connected::close
Connected_close(w, flt) ==
    LocalClosed_new(w, w.conn.fd, w.conn.send.buf, w.conn.recv.buf,
                    w.conn.remote_closed, flt)

\* ----------------------------------------------------- the Drop handlers
\* impl Drop for Connectee: panic!("Don't drop Connectee")
Drop_Connectee(w) == Panic(w, "Don't drop Connectee")

\* impl Drop for ConnecteeLocalClosed: panic!("Don't drop ConnecteeLocalClosed")
Drop_ConnecteeLocalClosed(w) == Panic(w, "Don't drop ConnecteeLocalClosed")

\* impl Drop for Connecter, reached while a panic in Connecter::poll unwinds
Drop_Connecter(w, msg) == Panic(w, msg)

\* -------------------------------------------------- ConnecteeLocalClosed
\* The non-zero SO_ERROR arm returns ConnecteeLocalClosedPoll::Killed with
\* self still alive: self is dropped as poll returns.
ConnecteeLocalClosed_poll(w, flt) ==
    IF flt = <<"ConnecteeLocalClosed", "so_error">>
    THEN Drop_ConnecteeLocalClosed(Ret(Use(w, w.conn.fd), Killed))
    ELSE IF w.kern.established
    THEN LocalClosed_new(Use(w, w.conn.fd), w.conn.fd, <<>>, <<>>, FALSE, flt)
    ELSE Use(w, w.conn.fd)

\* ConnecteeLocalClosed::new(fd, executor, remote)
ConnecteeLocalClosed_new(w, fd, flt) ==
    ConnecteeLocalClosed_poll(
        Ret(w, Variant("ConnecteeLocalClosed", fd, NoRing, NoRing, FALSE, FALSE)),
        flt)

\* -------------------------------------------------- ConnecterLocalClosed
RECURSIVE ConnecterLocalClosed_loop(_, _, _)
ConnecterLocalClosed_loop(w, count, flt) ==
    IF count + 1 >= RetryCap
    THEN Panic(w, "assertion failed: count < 1_000")
    ELSE IF w.conn.fd = 0
    THEN Ret(w, Closed)
    ELSE IF flt = <<"ConnecterLocalClosed", "so_error">>
    THEN ConnecterLocalClosed_loop(
             [close(remove_fd(Use(w, w.conn.fd), w.conn.fd), w.conn.fd)
                 EXCEPT !.conn.fd = 0],
             count + 1, flt)
    ELSE IF w.kern.established
    THEN LocalClosed_new(Use(w, w.conn.fd), w.conn.fd, <<>>, <<>>, FALSE, flt)
    ELSE Use(w, w.conn.fd)

ConnecterLocalClosed_poll(w, flt) == ConnecterLocalClosed_loop(w, 0, flt)

\* A slip: the descriptor of the Connecter is not carried over.
ConnecterLocalClosed_new_without(w, state, flt) ==
    ConnecterLocalClosed_poll(
        Ret(w, Variant("ConnecterLocalClosed", 0, NoRing, NoRing, FALSE, FALSE)),
        flt)

\* ConnecterLocalClosed::new(state, local, remote, executor)
ConnecterLocalClosed_new(w, state, flt) ==
    ConnecterLocalClosed_poll(
        Ret(w, Variant("ConnecterLocalClosed", state, NoRing, NoRing, FALSE, FALSE)),
        flt)

\* ------------------------------------------------------------- Connectee
\* The non-zero SO_ERROR arm returns ConnecteePoll::Killed with self still
\* alive: self is dropped as poll returns.
Connectee_poll(w, flt) ==
    IF flt = <<"Connectee", "so_error">>
    THEN Drop_Connectee(Ret(Use(w, w.conn.fd), Killed))
    ELSE IF w.kern.established
    THEN Connected_new(Use(w, w.conn.fd), w.conn.fd, flt)
    ELSE Use(w, w.conn.fd)

\* Connectee::new(fd, executor, remote)
Connectee_new(w, fd, flt) ==
    Connectee_poll(
        Ret(w, Variant("Connectee", fd, NoRing, NoRing, FALSE, FALSE)), flt)

\* Connectee::close
Connectee_close(w, flt) == ConnecteeLocalClosed_new(w, w.conn.fd, flt)

\* ------------------------------------------------------------- Connecter
\* What the kernel answers in one iteration of the loop of Connecter::poll.
\* With no socket: the result of connect (and of SO_ERROR when it is
\* EINPROGRESS).  With a socket: SO_ERROR.
ConnectAnswers ==
    {"EINPROGRESS", "EINPROGRESS_CONNECTED", "EINPROGRESS_SO_ERROR",
     "EADDRNOTAVAIL", "ECONNABORTED", "ECONNREFUSED"}
SocketAnswers == {"SO_ERROR_0", "SO_ERROR"}
Answers == ConnectAnswers \cup SocketAnswers

\* The answers did not fit the calls the poll made.
Unanswered == Variant("Unanswered", 0, NoRing, NoRing, FALSE, FALSE)

\* palaver::socket::socket(...), the setsockopts and bind: a new descriptor.
socket(w) ==
    [w EXCEPT !.fdt.open = @ \cup {w.fdt.next}, !.fdt.next = @ + 1,
              !.kern = FreshSocket]

\* Connecter::poll, the else arm of the connect: discard the attempt, add an
\* instant 1 ms ahead, stay Connecter with no socket.
Connecter_retry(w, fd) ==
    [add_instant(close(remove_fd(w, fd), fd)) EXCEPT !.conn.fd = 0]

RECURSIVE Connecter_loop(_, _, _, _)

\* Connecter::poll, the arm None of the match.
Connecter_connect(w, count, ks, flt) ==
    LET fd == w.fdt.next
        s == add_fd(socket(w), fd)
        a == Head(ks)
    IN IF fd > MaxFds \/ a \notin ConnectAnswers
       THEN Ret(w, Unanswered)
       ELSE IF a = "ECONNREFUSED"
       THEN Drop_Connecter(s, "Connecter err")
       ELSE IF a \in {"EINPROGRESS", "EINPROGRESS_CONNECTED"}
       THEN Connecter_loop(
                [s EXCEPT !.conn.fd = fd,
                          !.kern.established = (a = "EINPROGRESS_CONNECTED")],
                count, Tail(ks), flt)
       ELSE IF Tail(ks) = <<>> THEN Connecter_retry(s, fd) ELSE Ret(w, Unanswered)

\* A slip: the attempt's FD is closed but self.state keeps it.
Connecter_discard_keeps(w, fd) == close(remove_fd(w, fd), fd)

\* Connecter::poll, the arm of a non-zero SO_ERROR: remove_fd, close,
\* self.state = None.
Connecter_discard(w, fd) ==
    [close(remove_fd(w, fd), fd) EXCEPT !.conn.fd = 0]

\* Connecter::poll, the arm Some(fd) of the match.
Connecter_pending(w, count, ks, flt) ==
    LET fd == w.conn.fd
        a == Head(ks)
        u == Use(w, fd)
    IN IF a \notin SocketAnswers
       THEN Ret(w, Unanswered)
       ELSE IF a = "SO_ERROR"
       THEN Connecter_loop(Connecter_discard(u, fd), count, Tail(ks), flt)
       ELSE IF Tail(ks) # <<>>
       THEN Ret(w, Unanswered)
       ELSE IF w.kern.established
       THEN Connected_new(u, fd, flt)
       ELSE u

Connecter_loop(w, count, ks, flt) ==
    IF count + 1 >= RetryCap
    THEN Drop_Connecter(w, "assertion failed: count < 1_000")
    ELSE IF ks = <<>>
    THEN Ret(w, Unanswered)
    ELSE IF w.conn.fd = 0
    THEN Connecter_connect(w, count + 1, ks, flt)
    ELSE Connecter_pending(w, count + 1, ks, flt)

Connecter_poll(w, ks, flt) == Connecter_loop(w, 0, ks, flt)

\* Connecter::new(local, remote, executor)
Connecter_new(w, ks, flt) ==
    Connecter_poll(Ret(w, Variant("Connecter", 0, NoRing, NoRing, FALSE, FALSE)),
                   ks, flt)

\* Connecter::close
Connecter_close(w, flt) == ConnecterLocalClosed_new(w, w.conn.fd, flt)

\* ------------------------------------------- the umbrella enum Connection
\* A poll result outside the variants of its enum cannot be written in Rust.
Unrepresentable(c) == [c EXCEPT !.tag = "Unrepresentable"]

\* impl From<ConnecterPoll> for Connection
From_ConnecterPoll(c) ==
    IF c.tag \in {"Connecter", "Connected", "RemoteClosed", "Killed"}
    THEN c ELSE Unrepresentable(c)

\* impl From<ConnecteePoll> for Connection
From_ConnecteePoll(c) ==
    IF c.tag \in {"Connectee", "Connected", "RemoteClosed", "Killed"}
    THEN c ELSE Unrepresentable(c)

\* impl From<ConnecterLocalClosedPoll> for Connection
From_ConnecterLocalClosedPoll(c) ==
    IF c.tag \in {"ConnecterLocalClosed", "LocalClosed", "Closing", "Closed", "Killed"}
    THEN c ELSE Unrepresentable(c)

\* impl From<ConnecteeLocalClosedPoll> for Connection
From_ConnecteeLocalClosedPoll(c) ==
    IF c.tag \in {"ConnecteeLocalClosed", "LocalClosed", "Closing", "Closed", "Killed"}
    THEN c ELSE Unrepresentable(c)

\* impl From<ConnectedPoll> for Connection
From_ConnectedPoll(c) ==
    IF c.tag \in {"Connected", "RemoteClosed", "Killed"}
    THEN c ELSE Unrepresentable(c)

\* A slip: RemoteClosedPoll::Killed converted to the graceful terminal state.
From_RemoteClosedPoll_collapsed(c) ==
    IF c.tag = "RemoteClosed" THEN c
    ELSE IF c.tag = "Killed" THEN Closed
    ELSE Unrepresentable(c)

\* impl From<RemoteClosedPoll> for Connection
From_RemoteClosedPoll(c) ==
    IF c.tag \in {"RemoteClosed", "Killed"} THEN c ELSE Unrepresentable(c)

\* impl From<LocalClosedPoll> for Connection
From_LocalClosedPoll(c) ==
    IF c.tag \in {"LocalClosed", "Closing", "Closed", "Killed"}
    THEN c ELSE Unrepresentable(c)

\* A slip: ClosingPoll::Closing converted to Connection::RemoteClosed.
From_ClosingPoll_reopens(c) ==
    IF c.tag = "Closing" THEN [c EXCEPT !.tag = "RemoteClosed"]
    ELSE IF c.tag \in {"Closed", "Killed"} THEN c ELSE Unrepresentable(c)

\* impl From<ClosingPoll> for Connection
From_ClosingPoll(c) ==
    IF c.tag \in {"Closing", "Closed", "Killed"} THEN c ELSE Unrepresentable(c)

\* The value of an expression, computed once: the element of a set of one.
Only(S) == CHOOSE x \in S : TRUE

\* x.poll(executor).into() and x.close(executor).into()
Into(r, c) ==
    IF r.conn.tag = "Unanswered" THEN r ELSE Ret(r, c)

\* Connection::connect
Connection_connect(w, ks, flt) == Only({Into(x, From_ConnecterPoll(x.conn)) : x \in {Connecter_new(w, ks, flt)}})

\* A slip: the terminal arm leaves the placeholder of mem::replace in place.
Terminal_poll_placeholder(w) == Ret(w, Killed)

\* Connection::poll, the arms Closed => Closed and Killed => Killed
Terminal_poll(w) == Ret(w, w.conn)

\* Connection::poll
Connection_poll(w, ks, flt) ==
    LET t == w.conn.tag
    IN CASE t = "Connecter" -> Only({Into(x, From_ConnecterPoll(x.conn)) : x \in {Connecter_poll(w, ks, flt)}})
         [] t = "Connectee" -> Only({Into(x, From_ConnecteePoll(x.conn)) : x \in {Connectee_poll(w, flt)}})
         [] t = "ConnecterLocalClosed" ->
                Only({Into(x, From_ConnecterLocalClosedPoll(x.conn)) : x \in {ConnecterLocalClosed_poll(w, flt)}})
         [] t = "ConnecteeLocalClosed" ->
                Only({Into(x, From_ConnecteeLocalClosedPoll(x.conn)) : x \in {ConnecteeLocalClosed_poll(w, flt)}})
         [] t = "Connected" -> Only({Into(x, From_ConnectedPoll(x.conn)) : x \in {Connected_poll(w, flt)}})
         [] t = "RemoteClosed" -> Only({Into(x, From_RemoteClosedPoll(x.conn)) : x \in {RemoteClosed_poll(w, flt)}})
         [] t = "LocalClosed" -> Only({Into(x, From_LocalClosedPoll(x.conn)) : x \in {LocalClosed_poll(w, flt)}})
         [] t = "Closing" -> Only({Into(x, From_ClosingPoll(x.conn)) : x \in {Closing_poll(w, flt)}})
         [] t = "Closed" -> Terminal_poll(w)
         [] t = "Killed" -> Terminal_poll(w)

\* Connection::connecting, recvable, sendable, closed, valid, closable, killable
connecting(c) ==
    c.tag \in {"Connecter", "Connectee", "ConnecterLocalClosed", "ConnecteeLocalClosed"}
recvable(c) == c.tag \in {"Connected", "LocalClosed"}
sendable(c) == c.tag \in {"Connected", "RemoteClosed"}
closed(c) == c.tag = "Closed"
valid(c) ==
    c.tag \in {"Connecter", "Connectee", "ConnecterLocalClosed",
               "ConnecteeLocalClosed", "Connected", "RemoteClosed",
               "LocalClosed", "Closing", "Closed"}
\* A slip: LocalClosed listed with the closable states.
closable_wide(c) ==
    c.tag \in {"Connecter", "Connectee", "Connected", "RemoteClosed", "LocalClosed"}
\* A slip: Closed listed with the killable states.
killable_terminal(c) == c.tag # "Killed"

closable(c) == c.tag \in {"Connecter", "Connectee", "Connected", "RemoteClosed"}
killable(c) ==
    c.tag \in {"Connecter", "Connectee", "ConnecterLocalClosed",
               "ConnecteeLocalClosed", "Connected", "RemoteClosed",
               "LocalClosed", "Closing"}

\* Option<usize>: -1 is None
recv_avail(c) == IF recvable(c) THEN read_available(c.recv) ELSE -1
send_avail(c) == IF sendable(c) THEN write_available(c.send) ELSE -1

\* Connection::close, the closer invoked
Connection_close(w, flt) ==
    LET t == w.conn.tag
    IN CASE t = "Connecter" ->
                Only({Into(x, From_ConnecterLocalClosedPoll(x.conn)) : x \in {Connecter_close(w, flt)}})
         [] t = "Connectee" ->
                Only({Into(x, From_ConnecteeLocalClosedPoll(x.conn)) : x \in {Connectee_close(w, flt)}})
         [] t = "Connected" -> Only({Into(x, From_LocalClosedPoll(x.conn)) : x \in {Connected_close(w, flt)}})
         [] t = "RemoteClosed" -> Only({Into(x, From_ClosingPoll(x.conn)) : x \in {RemoteClosed_close(w, flt)}})
         [] OTHER -> Panic(w, "unreachable")

\* Connection::kill, the killer invoked
Connection_kill(w) ==
    LET t == w.conn.tag
    IN CASE t = "Connecter" -> KilledBy(Connecter_kill(w))
         [] t = "Connectee" -> KilledBy(Connectee_kill(w))
         [] t = "Connected" -> KilledBy(Connected_kill(w))
         [] t = "RemoteClosed" -> KilledBy(RemoteClosed_kill(w))
         [] t = "LocalClosed" -> KilledBy(LocalClosed_kill(w))
         [] t = "ConnecterLocalClosed" -> KilledBy(ConnecterLocalClosed_kill(w))
         [] t = "ConnecteeLocalClosed" -> KilledBy(ConnecteeLocalClosed_kill(w))
         [] t = "Closing" -> KilledBy(Closing_kill(w))
         [] OTHER -> Panic(w, "unreachable")

\* A slip: the reader moves the byte and does not call executor.queue().
State_recv_unqueued(w) ==
    IF w.conn.recv.some /\ Len(w.conn.recv.buf) > 0
    THEN [w EXCEPT !.conn.recv.buf = Tail(@)]
    ELSE Panic(w, "unwrap on None")

\* Connected::recv / LocalClosed::recv, the reader invoked: the oldest byte
\* leaves the recv ring, then executor.queue().
State_recv(w) ==
    IF w.conn.recv.some /\ Len(w.conn.recv.buf) > 0
    THEN queue([w EXCEPT !.conn.recv.buf = Tail(@)])
    ELSE Panic(w, "unwrap on None")

\* A slip: the writer moves the byte and does not call executor.queue().
State_send_unqueued(w, byte) ==
    IF w.conn.send.some /\ Len(w.conn.send.buf) < BUF
    THEN [w EXCEPT !.conn.send.buf = Append(@, byte)]
    ELSE Panic(w, "unwrap on None")

\* Connected::send / RemoteClosed::send, the writer invoked: the byte joins
\* the send ring, then executor.queue().
State_send(w, byte) ==
    IF w.conn.send.some /\ Len(w.conn.send.buf) < BUF
    THEN queue([w EXCEPT !.conn.send.buf = Append(@, byte)])
    ELSE Panic(w, "unwrap on None")

\* Connection::recv returns Some
Connection_recv_some(c) == recv_avail(c) > 0

\* A slip: send returns a writer whenever the state is sendable.
Connection_send_some_sendable(c) == send_avail(c) >= 0

\* Connection::send returns Some
Connection_send_some(c) == send_avail(c) > 0

\* ------------------------------------------------------------ the inputs
\* The kernel's answers to the loop of one Connecter::poll.
AnswerSeqs == UNION { [1..n -> Answers] : n \in 1..MaxLoop }

\* The states whose poll a poll (or close) of a state can run, from the
\* variants of the poll-result enums.
PollStates(tag) ==
    CASE tag = "Closing" -> {"Closing"}
      [] tag = "RemoteClosed" -> {"RemoteClosed"}
      [] tag = "LocalClosed" -> {"LocalClosed", "Closing"}
      [] tag = "Connected" -> {"Connected", "RemoteClosed"}
      [] tag = "Connecter" -> {"Connected", "RemoteClosed"}
      [] tag = "Connectee" -> {"Connectee", "Connected", "RemoteClosed"}
      [] tag = "ConnecterLocalClosed" -> {"ConnecterLocalClosed", "LocalClosed", "Closing"}
      [] tag = "ConnecteeLocalClosed" -> {"ConnecteeLocalClosed", "LocalClosed", "Closing"}
      [] OTHER -> {}

CloseTarget(tag) ==
    CASE tag = "Connecter" -> "ConnecterLocalClosed"
      [] tag = "Connectee" -> "ConnecteeLocalClosed"
      [] tag = "Connected" -> "LocalClosed"
      [] tag = "RemoteClosed" -> "Closing"
      [] OTHER -> "none"

FaultsOf(tag) == { f \in Faults : f = NoFault \/ f[1] \in PollStates(tag) }

\* The answers a poll of this state consumes: only Connecter asks any.
AnswersOf(tag) == IF tag = "Connecter" THEN AnswerSeqs ELSE {<<>>}

\* ---------------------------------------------------------------- Init
Unborn == Variant("Unborn", 0, NoRing, NoRing, FALSE, FALSE)

\* struct Listener { fd, is_socket_forwarder }, with what the kernel and the
\* other process hold for it (chan: the descriptors in flight on the
\* forwarding channel, backlog: the connections waiting on the listening
\* socket), the fate of the descriptors poll has obtained (items: the FDs
\* owned by yielded promote closures), and what the last turn of poll saw
\* (rcv: the descriptor received, ans: accept's answer, out: its outcome).
\* Here no Listener has been made.
NoListener ==
    [fd |-> 0, is_socket_forwarder |-> FALSE,
     chan |-> <<>>, backlog |-> 0, arrived |-> 0, forwarded |-> 0,
     items |-> {}, got |-> 0, yielded |-> 0, diverted |-> 0, dropped |-> 0,
     adopted |-> 0, rcv |-> "none", ans |-> "none", out |-> "none"]

Init ==
    /\ conn = Unborn
    /\ kern = FreshSocket
    /\ fdt = [open |-> {}, next |-> 1, closes |-> [f \in Fds |-> 0], misuse |-> {}]
    /\ notif = [fds |-> {}, adds |-> [f \in Fds |-> 0],
                removes |-> [f \in Fds |-> 0], instants |-> 0, queued |-> 0,
                edge |-> FALSE]
    /\ hist = [sent |-> <<>>, recvd |-> <<>>, peer |-> <<>>]
    /\ panicked = "none"
    /\ last = [op |-> "init", from |-> "Unborn", some |-> FALSE]
    /\ peer = [conn |-> Unborn, kern |-> FreshSocket,
               fdt |-> [open |-> {}, next |-> 1, closes |-> [f \in Fds |-> 0],
                        misuse |-> {}],
               notif |-> [fds |-> {}, adds |-> [f \in Fds |-> 0],
                          removes |-> [f \in Fds |-> 0], instants |-> 0,
                          queued |-> 0, edge |-> FALSE],
               panicked |-> "none", recvd |-> <<>>]
    /\ listener = NoListener
    /\ loop_count = 0

\* The world after a method: r is the world it returned.
Becomes(r, op, some) ==
    \E w \in {r} :
        /\ w.conn.tag # "Unanswered"
        /\ w.notif.instants <= MaxInstants
        /\ w.notif.queued <= MaxQueued
        /\ conn' = w.conn
        /\ kern' = w.kern
        /\ fdt' = w.fdt
        /\ notif' = w.notif
        /\ panicked' = w.panicked
        /\ last' = [op |-> op, from |-> conn.tag, some |-> some]
        /\ peer' = peer
        /\ UNCHANGED <<listener, loop_count>>

Running == panicked = "none"

\* ------------------------------------------------------------- actions
\* Connection::connect(local, remote, executor)
Connect ==
    /\ Running /\ conn.tag = "Unborn"
    /\ \E ks \in AnswerSeqs, flt \in FaultsOf("Connecter") :
          Becomes(Connection_connect(World, ks, flt), "connect", TRUE)
    /\ UNCHANGED hist

\* Listener::poll yields (remote, promote) for an accepted descriptor: the
\* descriptor is open, not yet given to the notifier, and owned by promote.
Accept ==
    /\ Running /\ conn.tag = "Unborn"
    /\ \E est \in BOOLEAN :
          Becomes([Ret(socket(World),
                       Variant("Accepted", fdt.next, NoRing, NoRing, FALSE, FALSE))
                     EXCEPT !.kern.established = est],
                  "accept", TRUE)
    /\ UNCHANGED hist

\* promote(executor): Connectee::new, then queue() and add_fd unless Killed.
Listener_promote(w, flt) ==
    LET r == Only({Into(x, From_ConnecteePoll(x.conn)) : x \in {Connectee_new(w, w.conn.fd, flt)}})
    IN IF r.conn.tag \in {"Connectee", "Connected", "RemoteClosed"}
       THEN add_fd(queue(r), r.conn.fd)
       ELSE r

Promote ==
    /\ Running /\ conn.tag = "Accepted"
    /\ \E flt \in FaultsOf("Connectee") :
          Becomes(Listener_promote(World, flt), "promote", TRUE)
    /\ UNCHANGED hist

\* Connection::poll, called after an FD edge, a fired instant or a queue().
PollSources == {"edge", "instant", "queue"}

Notified(w, src) ==
    CASE src = "edge" -> [w EXCEPT !.notif.edge = FALSE]
      [] src = "instant" -> [w EXCEPT !.notif.instants = @ - 1]
      [] src = "queue" -> [w EXCEPT !.notif.queued = @ - 1]

Poll ==
    /\ Running /\ conn.tag \notin {"Unborn", "Accepted"}
    /\ \E src \in PollSources, ks \in AnswersOf(conn.tag), flt \in FaultsOf(conn.tag) :
          /\ src = "instant" => notif.instants > 0
          /\ src = "queue" => notif.queued > 0
          /\ Becomes(Connection_poll(Notified(World, src), ks, flt), "poll", TRUE)
    /\ UNCHANGED hist

\* Connection::close, and the closer invoked when it returns one.
Close ==
    /\ Running /\ conn.tag \notin {"Unborn", "Accepted"}
    /\ IF closable(conn)
       THEN \E flt \in FaultsOf(CloseTarget(conn.tag)) :
               Becomes(Connection_close(World, flt), "close", TRUE)
       ELSE Becomes(World, "close", FALSE)
    /\ UNCHANGED hist

\* Connection::kill, and the killer invoked when it returns one.
Kill ==
    /\ Running /\ conn.tag \notin {"Unborn", "Accepted"}
    /\ IF killable(conn)
       THEN Becomes(Connection_kill(World), "kill", TRUE)
       ELSE Becomes(World, "kill", FALSE)
    /\ UNCHANGED hist

\* Connection::recv, and the reader invoked when it returns one.
Recv ==
    /\ Running /\ conn.tag \notin {"Unborn", "Accepted"}
    /\ IF Connection_recv_some(conn)
       THEN /\ Becomes(State_recv(World), "recv", TRUE)
            /\ hist' = [hist EXCEPT !.recvd = Append(@, Head(conn.recv.buf))]
       ELSE /\ Becomes(World, "recv", FALSE)
            /\ UNCHANGED hist

\* Connection::send, and the writer invoked when it returns one.  The bytes
\* the user sends are numbered 1, 2, ... so that loss, duplication and
\* reordering show.
Send ==
    /\ Running /\ conn.tag \notin {"Unborn", "Accepted"}
    /\ Len(hist.sent) < MaxSend \/ ~Connection_send_some(conn)
    /\ IF Connection_send_some(conn)
       THEN /\ Becomes(State_send(World, Len(hist.sent) + 1), "send", TRUE)
            /\ hist' = [hist EXCEPT !.sent = Append(@, Len(@) + 1)]
       ELSE /\ Becomes(World, "send", FALSE)
            /\ UNCHANGED hist

\* ------------------------------------------------- the kernel and the peer
SocketOpen == Running /\ conn.fd # 0 /\ conn.fd \in fdt.open

\* The edge the notifier delivers for a registered descriptor that has
\* turned ready (readable, writable or connected) from not ready; a
\* descriptor that was ready already raises none.
Edge(n, turned) ==
    IF turned /\ conn.fd \in n.fds THEN [n EXCEPT !.edge = TRUE] ELSE n

\* The pending connect completes.
KEstablishOn(edges) ==
    /\ SocketOpen /\ ~kern.established
    /\ kern' = [kern EXCEPT !.established = TRUE]
    /\ notif' = (IF edges THEN Edge(notif, TRUE) ELSE notif)
    /\ last' = [last EXCEPT !.op = "kernel", !.from = conn.tag, !.some = FALSE]
    /\ UNCHANGED <<conn, fdt, hist, panicked, peer, listener, loop_count>>

\* A byte of the peer arrives in the socket's receive buffer.
PeerSendOn(edges) ==
    /\ SocketOpen /\ kern.established /\ ~kern.fin
    /\ Len(kern.inbuf) < RcvBuf /\ Len(hist.peer) < MaxPeerSend
    /\ kern' = [kern EXCEPT !.inbuf = Append(@, Len(hist.peer) + 1)]
    /\ hist' = [hist EXCEPT !.peer = Append(@, Len(@) + 1)]
    /\ notif' = (IF edges THEN Edge(notif, kern.inbuf = <<>>) ELSE notif)
    /\ last' = [last EXCEPT !.op = "kernel", !.from = conn.tag, !.some = FALSE]
    /\ UNCHANGED <<conn, fdt, panicked, peer, listener, loop_count>>

\* The peer's FIN arrives.
PeerFinOn(edges) ==
    /\ SocketOpen /\ kern.established /\ ~kern.fin
    /\ kern' = [kern EXCEPT !.fin = TRUE]
    /\ notif' = (IF edges THEN Edge(notif, kern.inbuf = <<>>) ELSE notif)
    /\ last' = [last EXCEPT !.op = "kernel", !.from = conn.tag, !.some = FALSE]
    /\ UNCHANGED <<conn, fdt, hist, panicked, peer, listener, loop_count>>

\* The peer acknowledges the oldest unsent byte: it has reached the peer.
KAckOn(edges) ==
    /\ SocketOpen /\ kern.outbuf # <<>>
    /\ kern' = [kern EXCEPT !.outbuf = Tail(@),
                            !.delivered = Append(@, Head(kern.outbuf))]
    /\ notif' = (IF edges THEN Edge(notif, Len(kern.outbuf) = SndBuf) ELSE notif)
    /\ last' = [last EXCEPT !.op = "kernel", !.from = conn.tag, !.some = FALSE]
    /\ UNCHANGED <<conn, fdt, hist, panicked, peer, listener, loop_count>>

\* The kernel and the peer under a reactor that polls when it likes.
KEstablish == KEstablishOn(FALSE)
PeerSend == PeerSendOn(FALSE)
PeerFin == PeerFinOn(FALSE)
KAck == KAckOn(FALSE)

Next ==
    \/ Connect \/ Accept \/ Promote
    \/ Poll \/ Close \/ Kill \/ Recv \/ Send
    \/ KEstablish \/ PeerSend \/ PeerFin \/ KAck

Spec == Init /\ [][Next]_vars

\* ------------------------------- the same program under an edge-triggered
\* reactor that honours the Notifier contract: it polls the connection only
\* after an edge of its registered descriptor, a queue() or an added instant.
ScheduledPoll ==
    /\ Running /\ conn.tag \notin {"Unborn", "Accepted"}
    /\ \E src \in PollSources, ks \in AnswersOf(conn.tag), flt \in FaultsOf(conn.tag) :
          /\ src = "edge" => notif.edge
          /\ src = "instant" => notif.instants > 0
          /\ src = "queue" => notif.queued > 0
          /\ Becomes(Connection_poll(Notified(World, src), ks, flt), "poll", TRUE)
    /\ UNCHANGED hist

EdgeKEstablish == KEstablishOn(TRUE)
EdgePeerSend == PeerSendOn(TRUE)
EdgePeerFin == PeerFinOn(TRUE)
EdgeKAck == KAckOn(TRUE)

NextEdge ==
    \/ Connect \/ Accept \/ Promote
    \/ ScheduledPoll \/ Close \/ Kill \/ Recv \/ Send
    \/ EdgeKEstablish \/ EdgePeerSend \/ EdgePeerFin \/ EdgeKAck

SpecEdge == Init /\ [][NextEdge]_vars

\* ---------------------------------- two connections, one at each end of a
\* loopback TCP connection: B (conn, kern, fdt, notif) connects, A (peer) is
\* the connection the listener accepts.  The users follow the scenarios of
\* the specification: B sends, A receives, then A closes and B closes when
\* it sees that (echo), or A kills (reset).  No system call
\* fails except on a socket whose peer has reset it.
PairRunning == panicked = "none" /\ peer.panicked = "none"

\* connect to a port that has a listener: in progress, or done at once.
PairAnswers(c) ==
    IF c.tag = "Unborn"
    THEN {<<"EINPROGRESS", "SO_ERROR_0">>, <<"EINPROGRESS_CONNECTED", "SO_ERROR_0">>}
    ELSE IF c.tag = "Connecter" THEN {<<"SO_ERROR_0">>} ELSE {<<>>}

\* The system call that fails in a poll of a socket the peer has reset.
PairFaults(w) ==
    LET fs == {f \in Faults : f[1] = w.conn.tag}
    IN IF w.kern.reset /\ fs # {} THEN fs ELSE {NoFault}

\* The world of A after a method: r is the world it returned.
PeerBecomes(r) ==
    \E w \in {r} :
        /\ w.conn.tag # "Unanswered"
        /\ w.notif.instants <= MaxInstants
        /\ w.notif.queued <= MaxQueued
        /\ UNCHANGED <<conn, kern, fdt, notif, hist, panicked, last, listener, loop_count>>
        /\ peer' = w

\* B: Connection::connect
PairConnect ==
    /\ PairRunning /\ conn.tag = "Unborn"
    /\ \E ks \in PairAnswers(conn) :
          Becomes(Connection_connect(World, ks, NoFault), "connect", TRUE)
    /\ UNCHANGED hist

\* The handshake completes: B's socket is connected, and the listener's
\* poll yields the accepted descriptor of A.
PairAccept ==
    /\ PairRunning /\ conn.fd # 0 /\ conn.fd \in fdt.open
    /\ peer.conn.tag = "Unborn"
    /\ kern' = [kern EXCEPT !.established = TRUE]
    /\ peer' = [Ret(socket(peer),
                    Variant("Accepted", peer.fdt.next, NoRing, NoRing, FALSE, FALSE))
                  EXCEPT !.kern.established = TRUE]
    /\ UNCHANGED <<conn, fdt, notif, hist, panicked, last, listener, loop_count>>

\* A: promote(executor)
PairPromote ==
    /\ PairRunning /\ peer.conn.tag = "Accepted"
    /\ PeerBecomes(Listener_promote(peer, NoFault))

\* B: Connection::poll
PairPollB ==
    /\ PairRunning /\ conn.tag \notin {"Unborn", "Accepted"}
    /\ \E src \in PollSources, ks \in PairAnswers(conn), flt \in PairFaults(World) :
          /\ src = "instant" => notif.instants > 0
          /\ src = "queue" => notif.queued > 0
          /\ Becomes(Connection_poll(Notified(World, src), ks, flt), "poll", TRUE)
    /\ UNCHANGED hist

\* A: Connection::poll
PairPollA ==
    /\ PairRunning /\ peer.conn.tag \notin {"Unborn", "Accepted"}
    /\ \E src \in PollSources, flt \in PairFaults(peer) :
          /\ src = "instant" => peer.notif.instants > 0
          /\ src = "queue" => peer.notif.queued > 0
          /\ PeerBecomes(Connection_poll(Notified(peer, src), <<>>, flt))

\* B: send, the first byte once both ends are sendable and recvable.
PairSendB ==
    /\ PairRunning /\ Len(hist.sent) < MaxSend
    /\ hist.sent = <<>> =>
          /\ sendable(conn) /\ recvable(conn)
          /\ sendable(peer.conn) /\ recvable(peer.conn)
    /\ Connection_send_some(conn)
    /\ Becomes(State_send(World, Len(hist.sent) + 1), "send", TRUE)
    /\ hist' = [hist EXCEPT !.sent = Append(@, Len(@) + 1)]

\* A: recv
PairRecvA ==
    /\ PairRunning /\ Connection_recv_some(peer.conn)
    /\ PeerBecomes([State_recv(peer) EXCEPT
                        !.recvd = Append(@, Head(peer.conn.recv.buf))])

\* A has received everything B sent.
PairEchoed == hist.sent # <<>> /\ peer.recvd = hist.sent

\* A: close, after it has received the byte.
PairCloseA ==
    /\ PairRunning /\ PairEchoed /\ peer.conn.tag = "Connected"
    /\ PeerBecomes(Connection_close(peer, NoFault))

\* B: close, after it has observed that A closed.
PairCloseB ==
    /\ PairRunning /\ conn.tag = "RemoteClosed"
    /\ \E flt \in PairFaults(World) :
          Becomes(Connection_close(World, flt), "close", TRUE)
    /\ UNCHANGED hist

\* A: kill, after it has received the byte.
PairKillA ==
    /\ PairRunning /\ PairEchoed /\ peer.conn.tag = "Connected"
    /\ PeerBecomes(Connection_kill(peer))

\* TCP: the oldest byte B has written reaches A's receive buffer and is
\* acknowledged; a byte that reaches a closed socket is answered by a reset.
PairDeliver ==
    /\ PairRunning /\ conn.fd # 0 /\ conn.fd \in fdt.open
    /\ kern.outbuf # <<>> /\ ~kern.reset
    /\ IF peer.fdt.open # {}
       THEN /\ Len(peer.kern.inbuf) < RcvBuf
            /\ kern' = [kern EXCEPT !.outbuf = Tail(@),
                                    !.delivered = Append(@, Head(kern.outbuf))]
            /\ peer' = [peer EXCEPT !.kern.inbuf = Append(@, Head(kern.outbuf))]
       ELSE /\ kern' = [kern EXCEPT !.reset = TRUE]
            /\ peer' = peer
    /\ UNCHANGED <<conn, fdt, notif, hist, panicked, last, listener, loop_count>>

\* TCP: A's FIN reaches B, after A's shutdown(WRITE) or the close of its
\* socket.
PairFinToB ==
    /\ PairRunning /\ conn.fd # 0 /\ conn.fd \in fdt.open
    /\ ~kern.fin /\ ~kern.reset
    /\ peer.kern.shutdowns > 0 \/ (peer.fdt.next > 1 /\ peer.fdt.open = {})
    /\ kern' = [kern EXCEPT !.fin = TRUE]
    /\ UNCHANGED <<conn, fdt, notif, hist, panicked, last, peer, listener, loop_count>>

\* TCP: B's FIN reaches A, after B's shutdown(WRITE) and the bytes before it.
PairFinToA ==
    /\ PairRunning /\ peer.fdt.open # {}
    /\ ~peer.kern.fin /\ kern.shutdowns > 0 /\ kern.outbuf = <<>>
    /\ peer' = [peer EXCEPT !.kern.fin = TRUE]
    /\ UNCHANGED <<conn, kern, fdt, notif, hist, panicked, last, listener, loop_count>>

\* TCP: the close of A's socket by kill reaches B as a reset instead of a
\* FIN.
PairResetToB ==
    /\ PairRunning /\ conn.fd # 0 /\ conn.fd \in fdt.open
    /\ ~kern.fin /\ ~kern.reset
    /\ peer.conn.tag = "Killed" /\ peer.fdt.open = {}
    /\ kern' = [kern EXCEPT !.reset = TRUE]
    /\ UNCHANGED <<conn, fdt, notif, hist, panicked, last, peer, listener, loop_count>>

PairSetup ==
    \/ PairDeliver \/ PairFinToB
    \/ PairConnect \/ PairAccept \/ PairPromote
    \/ PairSendB \/ PairRecvA \/ PairPollA \/ PairPollB

\* S1, the loopback echo with a graceful close.
NextEcho == PairFinToA \/ PairCloseA \/ PairCloseB \/ PairSetup

SpecEcho == Init /\ [][NextEcho]_vars

\* Something that can happen does: a poll that is due is made, the users do
\* what the scenario says when they can, TCP delivers what is in flight.
SpecEchoFair == SpecEcho /\ WF_vars(NextEcho)

\* S2, the peer reset.
NextReset == PairResetToB \/ PairKillA \/ PairSetup

SpecReset == Init /\ [][NextReset]_vars

\* ------------------------------ one poll of a Connecter or of a
\* ConnecterLocalClosed, an iteration of its loop at a time, against a kernel
\* that answers each call as it likes.  The kernel hands out the lowest free
\* descriptor: a socket made after a close has the number of the closed one.
\* The poll starts without a socket, or with the socket of a pending connect.
InitRetry ==
    /\ \E tag \in {"Connecter", "ConnecterLocalClosed"}, fd \in {0, 1} :
          /\ conn = Variant(tag, fd, NoRing, NoRing, FALSE, FALSE)
          /\ fdt = [open |-> {fd} \ {0}, next |-> fd + 1,
                    closes |-> [f \in Fds |-> 0], misuse |-> {}]
          /\ notif = [fds |-> {fd} \ {0},
                      adds |-> [f \in Fds |-> IF f = fd THEN 1 ELSE 0],
                      removes |-> [f \in Fds |-> 0], instants |-> 0,
                      queued |-> 0, edge |-> FALSE]
          /\ last = [op |-> "loop", from |-> tag, some |-> FALSE]
    /\ kern \in {FreshSocket, [FreshSocket EXCEPT !.established = TRUE]}
    /\ kern.established => conn.fd # 0
    /\ hist = [sent |-> <<>>, recvd |-> <<>>, peer |-> <<>>]
    /\ panicked = "none"
    /\ peer = [conn |-> Unborn, kern |-> FreshSocket,
               fdt |-> [open |-> {}, next |-> 1, closes |-> [f \in Fds |-> 0],
                        misuse |-> {}],
               notif |-> [fds |-> {}, adds |-> [f \in Fds |-> 0],
                          removes |-> [f \in Fds |-> 0], instants |-> 0,
                          queued |-> 0, edge |-> FALSE],
               panicked |-> "none", recvd |-> <<>>]
    /\ listener = NoListener
    /\ loop_count = 0

\* Connecter::poll, one iteration of the loop after its assert: the world it
\* leaves, and whether it returned.
Connecter_turn(w, a) ==
    LET fd == w.fdt.next
        s == add_fd(socket(w), fd)
        u == Use(w, w.conn.fd)
    IN IF w.conn.fd = 0
       THEN IF a = "ECONNREFUSED"
            THEN [world |-> Drop_Connecter(s, "Connecter err"), returned |-> TRUE]
            ELSE IF a \in {"EINPROGRESS", "EINPROGRESS_CONNECTED"}
            THEN [world |-> [s EXCEPT !.conn.fd = fd,
                                      !.kern.established = (a = "EINPROGRESS_CONNECTED")],
                  returned |-> FALSE]
            ELSE [world |-> [Connecter_retry(s, fd) EXCEPT !.fdt.next = fd],
                  returned |-> TRUE]
       ELSE IF a = "SO_ERROR"
            THEN [world |-> [Connecter_discard(u, w.conn.fd) EXCEPT
                                !.fdt.next = w.conn.fd],
                  returned |-> FALSE]
            ELSE IF w.kern.established
            THEN [world |-> Only({Into(x, From_ConnectedPoll(x.conn)) :
                                    x \in {Connected_new(u, w.conn.fd, NoFault)}}),
                  returned |-> TRUE]
            ELSE [world |-> u, returned |-> TRUE]

\* A slip: the arm of a non-zero SO_ERROR closes the socket and keeps it.
ConnecterLocalClosed_turn_keeps(w, a) ==
    LET u == Use(w, w.conn.fd)
    IN IF w.conn.fd = 0
       THEN [world |-> Ret(w, Closed), returned |-> TRUE]
       ELSE IF a = "SO_ERROR"
       THEN [world |-> close(remove_fd(u, w.conn.fd), w.conn.fd),
             returned |-> FALSE]
       ELSE [world |-> u, returned |-> TRUE]

\* ConnecterLocalClosed::poll, one iteration of the loop after its assert.
ConnecterLocalClosed_turn(w, a) ==
    LET u == Use(w, w.conn.fd)
    IN IF w.conn.fd = 0
       THEN [world |-> Ret(w, Closed), returned |-> TRUE]
       ELSE IF a = "SO_ERROR"
       THEN [world |-> [close(remove_fd(u, w.conn.fd), w.conn.fd) EXCEPT
                           !.conn.fd = 0],
             returned |-> FALSE]
       ELSE IF w.kern.established
       THEN [world |-> Only({Into(x, From_LocalClosedPoll(x.conn)) :
                               x \in {LocalClosed_new(u, w.conn.fd, <<>>, <<>>,
                                                      FALSE, NoFault)}}),
             returned |-> TRUE]
       ELSE [world |-> u, returned |-> TRUE]

\* count += 1; assert!(count < 1_000); match self.state { ... }
LoopIteration ==
    /\ last.op = "loop" /\ panicked = "none"
    /\ loop_count' = loop_count + 1
    /\ \E a \in Answers :
          /\ a \in (IF conn.fd = 0 /\ conn.tag = "Connecter"
                    THEN ConnectAnswers \ {"EINPROGRESS_SO_ERROR"}
                    ELSE SocketAnswers)
          /\ \E t \in { IF loop_count + 1 >= RetryCap
                         THEN [world |-> Panic(World, "assertion failed: count < 1_000"),
                               returned |-> TRUE]
                         ELSE IF conn.tag = "Connecter"
                         THEN Connecter_turn(World, a)
                         ELSE ConnecterLocalClosed_turn(World, a) } :
                /\ conn' = t.world.conn
                /\ kern' = t.world.kern
                /\ fdt' = t.world.fdt
                /\ notif' = t.world.notif
                /\ panicked' = t.world.panicked
                /\ last' = [op |-> IF t.returned THEN "poll" ELSE "loop",
                            from |-> conn.tag, some |-> t.returned]
    /\ UNCHANGED <<hist, peer, listener>>

\* The poll runs on: the thread that called it is not stopped.
SpecRetry == InitRetry /\ [][LoopIteration]_vars /\ WF_vars(LoopIteration)

\* ==================================================== the claims, C1 - C10
Connections ==
    {"Connecter", "Connectee", "ConnecterLocalClosed", "ConnecteeLocalClosed",
     "Connected", "RemoteClosed", "LocalClosed", "Closing", "Closed", "Killed"}

\* The column poll of the transition table.
PollTable(tag) ==
    CASE tag = "Connecter" -> {"Connecter", "Connected", "RemoteClosed", "Killed"}
      [] tag = "Connectee" -> {"Connectee", "Connected", "RemoteClosed", "Killed"}
      [] tag = "Connected" -> {"Connected", "RemoteClosed", "Killed"}
      [] tag = "RemoteClosed" -> {"RemoteClosed", "Killed"}
      [] tag = "LocalClosed" -> {"LocalClosed", "Closing", "Closed", "Killed"}
      [] tag = "ConnecterLocalClosed" ->
             {"ConnecterLocalClosed", "LocalClosed", "Closing", "Closed", "Killed"}
      [] tag = "ConnecteeLocalClosed" ->
             {"ConnecteeLocalClosed", "LocalClosed", "Closing", "Closed", "Killed"}
      [] tag = "Closing" -> {"Closing", "Closed", "Killed"}
      [] tag = "Closed" -> {"Closed"}
      [] tag = "Killed" -> {"Killed"}
      [] OTHER -> {}

\* The column close of the transition table.
CloseTable(tag) ==
    CASE tag = "Connecter" ->
             {"ConnecterLocalClosed", "LocalClosed", "Closing", "Closed", "Killed"}
      [] tag = "Connectee" ->
             {"ConnecteeLocalClosed", "LocalClosed", "Closing", "Closed", "Killed"}
      [] tag = "Connected" -> {"LocalClosed", "Closing", "Closed", "Killed"}
      [] tag = "RemoteClosed" -> {"Closing", "Closed", "Killed"}
      [] OTHER -> {}

\* C1: one Connection::poll moves the umbrella value only to a successor the
\* transition table lists for the state it was in, whatever the kernel
\* answers.
C1_PollFollowsTable ==
    [][last'.op = "poll" => conn'.tag \in PollTable(conn.tag)]_vars

\* C1 witness: a poll has taken LocalClosed on to Closing, which waits for
\* the kernel to report the written bytes acknowledged.
C1_Witness ==
    /\ last.op = "poll" /\ last.from = "LocalClosed"
    /\ conn.tag = "Closing" /\ conn.local_closed_given /\ unsent(World) > 0

\* C2: close returns a closer exactly in Connecter, Connectee, Connected and
\* RemoteClosed; when it returns None nothing changes; the closer moves the
\* state only to a successor the transition table lists.
C2_CloseContract ==
    [][last'.op = "close" =>
         /\ last'.some <=>
               conn.tag \in {"Connecter", "Connectee", "Connected", "RemoteClosed"}
         /\ ~last'.some =>
               conn' = conn /\ notif' = notif /\ fdt' = fdt /\ kern' = kern
         /\ last'.some => conn'.tag \in CloseTable(conn.tag)]_vars

\* C2 witness: the closer of a Connecter whose connect is pending has left
\* it in ConnecterLocalClosed.
C2_Witness ==
    /\ last.op = "close" /\ last.some /\ last.from = "Connecter"
    /\ conn.tag = "ConnecterLocalClosed" /\ conn.fd \in fdt.open

\* C3: kill returns a killer exactly in the non-terminal states; the killer
\* yields Killed; a kill on Killed or Closed returns None and changes
\* nothing, so that no descriptor is closed twice.
C3_KillContract ==
    [][last'.op = "kill" =>
         /\ last'.some <=> conn.tag \notin {"Closed", "Killed"}
         /\ last'.some => conn'.tag = "Killed"
         /\ ~last'.some =>
               conn' = conn /\ notif' = notif /\ fdt' = fdt /\ kern' = kern
         /\ \A f \in Fds : fdt'.closes[f] <= 1]_vars

\* C3 witness: a second kill has met Killed and returned None, after the
\* first closed the descriptor.
C3_Witness ==
    /\ last.op = "kill" /\ ~last.some /\ last.from = "Killed"
    /\ conn.tag = "Killed" /\ \E f \in Fds : fdt.closes[f] = 1

\* The step has called no method of the Notifier (the reactor itself takes
\* away the instant or the queued poll that it is firing).
NoNotifierCall ==
    /\ notif'.fds = notif.fds
    /\ notif'.adds = notif.adds /\ notif'.removes = notif.removes
    /\ notif'.instants <= notif.instants /\ notif'.queued <= notif.queued

\* C4: Closed and Killed are absorbing: no operation changes the umbrella
\* value, calls the notifier or makes a system call from there; valid() is
\* false exactly in Killed and closed() is true exactly in Closed.
C4_TerminalAbsorbing ==
    [][/\ conn.tag \in {"Closed", "Killed"} =>
             conn' = conn /\ NoNotifierCall /\ fdt' = fdt /\ kern' = kern
       /\ conn'.tag \in Connections =>
             /\ valid(conn') <=> conn'.tag # "Killed"
             /\ closed(conn') <=> conn'.tag = "Closed"]_vars

\* C4 witness: a poll has been made on a Closed connection.
C4_Witness ==
    /\ last.op = "poll" /\ last.from = "Closed" /\ conn.tag = "Closed"
    /\ valid(conn) /\ closed(conn)

\* Every descriptor made for the connection has been removed from the
\* notifier once and closed once.
AllReleasedOnce ==
    \A f \in Fds :
       f < fdt.next =>
          /\ f \notin fdt.open /\ f \notin notif.fds
          /\ fdt.closes[f] = 1 /\ notif.removes[f] = 1

\* C5: after a kill, and after a close/poll sequence that has ended in
\* Closed, the descriptor the state held is out of the notifier and closed,
\* once each.
C5_ReleasedAfterKillOrClosed ==
    (conn.tag = "Closed" \/ (last.op = "kill" /\ last.some)) => AllReleasedOnce

\* C5 witness: a connection that held a descriptor has been shut down and
\* has reached Closed through Closing.
C5_Witness ==
    /\ conn.tag = "Closed" /\ last.from = "Closing"
    /\ kern.shutdowns = 1 /\ fdt.next > 1

\* The routes to Killed that return normally or end in the Drop of the state
\* that met the error (a kill, an error of the data path, SO_ERROR); the
\* other panics of the program are no such route.
DropPanics == {"Don't drop Connectee", "Don't drop ConnecteeLocalClosed"}
KilledByListedRoute ==
    /\ conn.tag = "Killed" /\ last.op \in {"poll", "close", "kill"}
    /\ panicked \in {"none"} \cup DropPanics

\* C6: a connection that has become Killed, by a kill or by a poll or close
\* that met an error, holds no open descriptor and none is left with the
\* notifier.
C6_KilledHoldsNothing ==
    KilledByListedRoute => fdt.open = {} /\ notif.fds = {}

\* C7: no state value is dropped by the library's own poll, close or kill:
\* the panic "Don't drop <State>" is never raised.
C7_NoDropPanic == panicked \notin DropPanics

\* C8: the descriptor of the connection has one owner, the current state,
\* which received it from its predecessor; no descriptor is closed twice and
\* none is used in a system call after it was closed.
C8_SingleOwnerFd ==
    /\ fdt.misuse = {}
    /\ \A f \in Fds : fdt.closes[f] <= 1
    /\ Running => fdt.open = (IF conn.fd = 0 THEN {} ELSE {conn.fd})

\* C8 witness: one close has handed the descriptor from Connected through
\* LocalClosed to Closing, which owns it open.
C8_Witness ==
    /\ last.op = "close" /\ last.from = "Connected" /\ conn.tag = "Closing"
    /\ fdt.open = {conn.fd} /\ fdt.closes[conn.fd] = 0

\* What a graceful close owes: every byte passed to send has reached the
\* peer in order, nothing is left unsent, and shutdown(WRITE) was issued
\* once, with the send ring empty.
AllDelivered == kern.delivered = hist.sent /\ kern.outbuf = <<>>
ShutDownEmpty == kern.shutdowns = 1 /\ ~kern.shut_nonempty

\* C9 as stated: a connection is Closed only after its bytes were written
\* and delivered and shutdown(WRITE) was issued with the send ring empty.
C9_ClosedOnlyAfterShutdown ==
    conn.tag = "Closed" => AllDelivered /\ ShutDownEmpty

\* C9 amended: a connection becomes Closed either out of Closing, after
\* shutdown(WRITE) with the send ring empty and with every byte passed to
\* send delivered and none unsent, or out of Connecter / ConnecterLocalClosed
\* with no socket left, no byte ever passed to send and no shutdown.
C9_NoSendLossOnClose ==
    [][conn.tag # "Closed" /\ conn'.tag = "Closed" =>
         /\ kern'.delivered = hist'.sent /\ kern'.outbuf = <<>>
         /\ \/ kern'.shutdowns = 1 /\ ~kern'.shut_nonempty
            \/ /\ conn.tag \in {"Connecter", "ConnecterLocalClosed"}
               /\ last'.op \in {"close", "poll"}
               /\ kern'.shutdowns = 0 /\ hist'.sent = <<>>
               /\ fdt'.open = {}]_vars

\* C9 witness: a connection closed with bytes still in the send ring has
\* reached Closed with both bytes delivered.
C9_Witness ==
    /\ conn.tag = "Closed" /\ last.from = "Closing"
    /\ Len(hist.sent) = MaxSend /\ kern.delivered = hist.sent

\* t is s, or s followed by more.
IsPrefix(s, t) == Len(s) <= Len(t) /\ SubSeq(t, 1, Len(s)) = s

\* The recv ring after a step: without its oldest byte when the step is a
\* recv, otherwise the same bytes, followed by what was read meanwhile.
RecvRingKept ==
    /\ conn'.recv.some
    /\ IF last'.op = "recv"
       THEN conn'.recv.buf = Tail(conn.recv.buf)
       ELSE IsPrefix(conn.recv.buf, conn'.recv.buf)

\* A step on a closed-for-sending connection with unread bytes: the close of
\* a Connected, or any step but a kill on a LocalClosed.
UnreadAtClose ==
    /\ \/ last'.op = "close" /\ conn.tag = "Connected"
       \/ last'.op # "kill" /\ conn.tag = "LocalClosed"
    /\ Len(conn.recv.buf) > 0

\* C10 as stated: the bytes in the recv ring at close stay in it, in order,
\* until the user has received them; with unread bytes the connection does
\* not leave LocalClosed.
C10_UnreadKeepsLocalClosed ==
    [][UnreadAtClose => conn'.tag = "LocalClosed" /\ RecvRingKept]_vars

\* C10 amended: ... with unread bytes the connection leaves LocalClosed only
\* for Killed (an error of the data path), never for Closing or Closed; as
\* long as it is LocalClosed the bytes stay in the ring, in order.
C10_UnreadKeptUnlessKilled ==
    [][UnreadAtClose =>
         /\ conn'.tag \in {"LocalClosed", "Killed"}
         /\ conn'.tag = "LocalClosed" => RecvRingKept]_vars

\* C10 witness: a Connected with an unread byte has been closed and is
\* LocalClosed with the byte in its ring.
C10_Witness ==
    /\ last.op = "close" /\ last.from = "Connected"
    /\ conn.tag = "LocalClosed" /\ Len(conn.recv.buf) > 0

\* ================================================== the claims, C11 - C20
\* A step of poll, close or kill that takes a state with a recv ring to a
\* state of the given set, which has none.
RecvRingDropped(ops, to) ==
    /\ last'.op \in ops
    /\ conn.tag \in {"Connected", "LocalClosed"}
    /\ conn'.tag \in to

\* Nothing is unread and the peer has closed: the recv ring and the socket's
\* receive buffer are empty and the FIN has been seen or is what is left to
\* read.
RecvDrained ==
    /\ read_available(conn.recv) = 0 /\ unreceived(World) = 0
    /\ conn.remote_closed \/ kern.fin

\* C11 as stated: every step of poll, close or kill from a state with a recv
\* ring to RemoteClosed, Closing, Closed or Killed happens with the recv ring
\* empty and remote_closed true.
C11_RecvRingLeftOnlyDrained ==
    [][RecvRingDropped({"poll", "close", "kill"},
                       {"RemoteClosed", "Closing", "Closed", "Killed"})
          => RecvDrained]_vars

\* C11 amended: every step of poll or close from a state with a recv ring to
\* RemoteClosed, Closing or Closed happens with the recv ring empty and
\* remote_closed true; a step to Killed lets go of the ring as it is.
C11_RecvRingLeftDrainedUnlessKilled ==
    [][RecvRingDropped({"poll", "close"}, {"RemoteClosed", "Closing", "Closed"})
          => RecvDrained]_vars

\* C11 witness: a poll has taken a Connected to RemoteClosed after the user
\* received every byte the peer sent.
C11_Witness ==
    /\ last.op = "poll" /\ last.from = "Connected" /\ conn.tag = "RemoteClosed"
    /\ Len(hist.peer) = MaxPeerSend /\ hist.recvd = hist.peer

\* C12: recv_avail is Some exactly in Connected and LocalClosed and
\* send_avail exactly in Connected and RemoteClosed, where the ring asked
\* exists; recv returns a reader only with recv_avail > 0 and send a writer
\* only with send_avail > 0, so that a full send ring gives send_avail = 0
\* and no writer; a reader or writer that was returned does not panic.
C12_CapabilityAgreement ==
    [][/\ conn'.tag \in Connections =>
             /\ recv_avail(conn') >= 0 <=> conn'.tag \in {"Connected", "LocalClosed"}
             /\ send_avail(conn') >= 0 <=> conn'.tag \in {"Connected", "RemoteClosed"}
             /\ recvable(conn') => conn'.recv.some
             /\ sendable(conn') => conn'.send.some
             /\ sendable(conn') /\ Len(conn'.send.buf) = BUF =>
                   send_avail(conn') = 0 /\ ~Connection_send_some(conn')
       /\ last'.op = "recv" /\ last'.some =>
             recv_avail(conn) > 0 /\ panicked' = "none"
       /\ last'.op = "send" /\ last'.some =>
             send_avail(conn) > 0 /\ panicked' = "none"]_vars

\* C12 witness: send has met a full send ring and returned None.
C12_Witness ==
    /\ last.op = "send" /\ ~last.some /\ sendable(conn)
    /\ Len(conn.send.buf) = BUF /\ send_avail(conn) = 0

\* The states that carry local_closed_given, and those that carry
\* remote_closed.
CarriesLocalClosedGiven(c) == c.tag \in {"LocalClosed", "Closing"}
CarriesRemoteClosed(c) == c.tag \in {"Connected", "LocalClosed"}

\* C13: local_closed_given and remote_closed are set once: a step from a
\* state that carries the flag set to a state that carries it leaves it set
\* (LocalClosed to Closing by poll, Connected to LocalClosed by close
\* included), and local_closed_given stands for the one shutdown(WRITE) of
\* the socket, which is not issued again.
C13_FlagsSetOnce ==
    [][/\ (CarriesLocalClosedGiven(conn) /\ conn.local_closed_given
            /\ CarriesLocalClosedGiven(conn')) => conn'.local_closed_given
       /\ (CarriesRemoteClosed(conn) /\ conn.remote_closed
            /\ CarriesRemoteClosed(conn')) => conn'.remote_closed
       /\ (CarriesLocalClosedGiven(conn') /\ conn'.local_closed_given)
             => kern'.shutdowns = 1]_vars

\* C13 witness: the user has received a byte from a LocalClosed that had
\* issued its shutdown and seen the peer's FIN before; both flags are set
\* after the step as they were before it.
C13_Witness ==
    /\ last.op = "recv" /\ last.some /\ last.from = "LocalClosed"
    /\ conn.tag = "LocalClosed"
    /\ conn.local_closed_given /\ conn.remote_closed

\* C14: the reader returned by recv takes exactly the oldest byte out of the
\* recv ring and calls queue() once; the writer returned by send puts
\* exactly its byte at the end of the send ring and calls queue() once;
\* nothing else of the connection changes, and a poll is then scheduled
\* whether or not the kernel raises an edge.  A recv or send that returns
\* None moves nothing and schedules nothing.
C14_ByteMoveQueuesPoll ==
    [][/\ last'.op = "recv" /\ last'.some =>
             /\ conn.recv.buf = <<Head(conn.recv.buf)>> \o conn'.recv.buf
             /\ hist'.recvd = Append(hist.recvd, Head(conn.recv.buf))
             /\ conn' = [conn EXCEPT !.recv.buf = Tail(@)]
             /\ notif' = [notif EXCEPT !.queued = @ + 1]
             /\ kern' = kern /\ fdt' = fdt
       /\ last'.op = "send" /\ last'.some =>
             /\ conn'.send.buf = Append(conn.send.buf, Len(hist'.sent))
             /\ hist'.sent = Append(hist.sent, Len(hist'.sent))
             /\ conn' = [conn EXCEPT !.send.buf = conn'.send.buf]
             /\ notif' = [notif EXCEPT !.queued = @ + 1]
             /\ kern' = kern /\ fdt' = fdt
       /\ last'.op \in {"recv", "send"} /\ ~last'.some =>
             conn' = conn /\ notif' = notif /\ kern' = kern /\ fdt' = fdt
                /\ hist' = hist]_vars

\* C14 witness: the writer has put a byte into the send ring of a Connected
\* whose socket has nothing to report, and the one poll that is scheduled is
\* the one it queued.
C14_Witness ==
    /\ last.op = "send" /\ last.some /\ last.from = "Connected"
    /\ conn.tag = "Connected" /\ Len(conn.send.buf) = 1
    /\ notif.queued = 1 /\ notif.instants = 0
    /\ kern.inbuf = <<>> /\ ~kern.fin /\ kern.outbuf = <<>>

\* Bytes a poll would move now: the send ring holds bytes and the kernel
\* takes more, or the peer is not known closed, the recv ring has room and
\* the kernel has bytes or the end of the stream to read.
SendWork == conn.send.some /\ read_available(conn.send) > 0 /\ unsent(World) < SndBuf
RecvWork ==
    /\ conn.recv.some /\ ~conn.remote_closed /\ write_available(conn.recv) > 0
    /\ unreceived(World) > 0 \/ kern.fin

\* A transition a poll would make now: a promotion out of a connecting state
\* whose socket is connected, the hand-over of a drained and remotely closed
\* recv ring, the shutdown due on an empty send ring.
StepWork ==
    \/ connecting(conn) /\ conn.fd # 0 /\ kern.established
    \/ recvable(conn) /\ conn.remote_closed /\ read_available(conn.recv) = 0
    \/ /\ conn.tag \in {"LocalClosed", "Closing"}
       /\ ~conn.local_closed_given /\ read_available(conn.send) = 0

\* A transition that waits for a timer: the retry of a Connecter that has no
\* socket, the wait of Closing for unsent == 0.
TimerWork ==
    \/ conn.tag = "Connecter" /\ conn.fd = 0
    \/ conn.tag = "Closing" /\ conn.local_closed_given

\* The reactor owes the connection a poll.
PollPending == notif.edge \/ notif.queued > 0 \/ notif.instants > 0

C16_CloseThenKillReleasesOnce ==
    [][/\ (last'.op = "close" /\ last'.some) => panicked' = "none"
       /\ (last.op = "close" /\ last.some /\ last'.op = "kill") =>
             conn'.tag \in {"Killed", "Closed"} /\ AllReleasedOnce']_vars

\* C17: a Connecter poll (the one inside connect included) whose attempt the
\* remote port refuses returns Connecter: it does not abort, and when it has
\* discarded the refused attempt it has armed a retry instant; nothing but
\* a poll that finds the socket connected takes the connection past
\* Connecter.
C17_RefusedConnectRetries ==
    [][(last'.op \in {"connect", "poll"} /\ conn.tag \in {"Unborn", "Connecter"}) =>
          /\ panicked' = "none"
          /\ (conn'.tag = "Connecter" /\ conn'.fd = 0) => notif'.instants > 0
          /\ conn'.tag # "Connecter" => kern'.established]_vars

\* Both connections are gracefully closed and A has received what B sent.
PairBothClosed ==
    /\ closed(conn) /\ valid(conn) /\ closed(peer.conn) /\ valid(peer.conn)
    /\ peer.recvd = hist.sent

\* C18: in the loopback echo, where B sends, A receives, A closes and B
\* closes once it sees that, neither connection is ever Killed or aborted,
\* A receives the bytes B sent in the order sent, and when the polls are
\* made and TCP delivers, both connections end Closed and stay so, with
\* every byte received.
C18_EchoEndsClosed ==
    /\ [](PairRunning /\ conn.tag # "Killed" /\ peer.conn.tag # "Killed"
            /\ IsPrefix(peer.recvd, hist.sent))
    /\ <>[]PairBothClosed

\* C18 witness: B sent one byte, A received it and closed, B closed, and
\* both are Closed with their descriptors released.
C18_Witness ==
    /\ PairBothClosed /\ hist.sent = <<1>>
    /\ fdt.open = {} /\ peer.fdt.open = {}
    /\ kern.shutdowns = 1 /\ peer.kern.shutdowns = 1

\* C19 (S2, peer reset): A and B are Connected, B has sent and A has received;
\* once A has been killed and the close of its socket has reached B, a poll of
\* the Connected B makes it Killed: valid() is false, and B's descriptor is
\* removed from the notifier and closed, once each.
C19_PeerKillKillsB ==
    [][(/\ PairPollB
        /\ conn.tag = "Connected" /\ peer.conn.tag = "Killed" /\ PairEchoed
        /\ kern.fin \/ kern.reset) =>
             /\ conn'.tag = "Killed" /\ ~valid(conn')
             /\ AllReleasedOnce']_vars

\* C20 (S5, close before connect): a close of a Connecter, and every poll of
\* the ConnecterLocalClosed it leaves, creates no socket and registers none,
\* so no connect is started.  Without a descriptor the result is Closed; a
\* descriptor whose connect is still pending is kept; a descriptor that
\* reports an error is removed from the notifier and closed, and the result
\* is Closed; a descriptor whose connect has succeeded is handed to a
\* LocalClosed made with empty rings, remote_closed and local_closed_given
\* false: its first poll writes nothing, reads what the socket holds, and
\* issues the one shutdown(WRITE); only a system call that fails on that
\* connected socket makes the result Killed.  From LocalClosed the only ways
\* on are Closing and Closed (or Killed), from Closing Closed (or Killed).
C20_CloseBeforeConnect ==
    [][LET f == conn.fd
           promoted == kern'.shutdowns # kern.shutdowns
       IN /\ (\/ (last'.op = "close" /\ last'.some /\ last'.from = "Connecter")
               \/ (last'.op = "poll" /\ last'.from = "ConnecterLocalClosed")) =>
                /\ panicked' = "none"
                /\ fdt'.next = fdt.next /\ notif'.adds = notif.adds
                /\ kern'.established = kern.established
                /\ conn'.tag \in {"ConnecterLocalClosed", "LocalClosed", "Closing",
                                  "Closed", "Killed"}
                /\ conn'.tag = "Killed" =>
                      /\ f # 0 /\ kern.established
                      /\ f \notin fdt'.open /\ f \notin notif'.fds
                /\ f = 0 => conn' = Closed /\ fdt' = fdt /\ notif'.fds = notif.fds
                /\ conn'.tag = "ConnecterLocalClosed" =>
                      /\ f # 0 /\ conn'.fd = f /\ ~kern.established
                      /\ fdt' = fdt /\ notif'.fds = notif.fds /\ kern' = kern
                /\ (f # 0 /\ ~kern.established) =>
                      conn'.tag \in {"ConnecterLocalClosed", "Closed"}
                /\ (f # 0 /\ conn'.tag = "Closed") =>
                      /\ f \notin fdt'.open /\ f \notin notif'.fds
                      /\ fdt'.closes[f] = fdt.closes[f] + 1
                      /\ notif'.removes[f] = notif.removes[f] + 1
                /\ conn'.tag = "Closed" /\ ~promoted => kern' = kern
                /\ (\/ conn'.tag \in {"LocalClosed", "Closing"}
                    \/ (conn'.tag = "Closed" /\ promoted)) =>
                      /\ f # 0 /\ kern.established
                      /\ kern'.shutdowns = kern.shutdowns + 1
                      /\ kern'.outbuf = kern.outbuf
                      /\ kern.inbuf = conn'.recv.buf \o kern'.inbuf
                      /\ conn'.tag = "LocalClosed" =>
                            /\ conn'.fd = f /\ f \in fdt'.open /\ f \in notif'.fds
                            /\ conn'.send.buf = <<>> /\ conn'.local_closed_given
                            /\ conn'.remote_closed => kern.fin
                            /\ ~conn'.remote_closed \/ conn'.recv.buf # <<>>
                      /\ conn'.tag # "LocalClosed" => kern.fin /\ kern.inbuf = <<>>
          /\ conn.tag = "LocalClosed" =>
                conn'.tag \in {"LocalClosed", "Closing", "Closed", "Killed"}
          /\ conn.tag = "Closing" => conn'.tag \in {"Closing", "Closed", "Killed"}]_vars

\* C20 witness: the connect succeeded after the close, and a poll of the
\* ConnecterLocalClosed has made the LocalClosed, which has read the byte the
\* peer had sent and has shut the write side down.
C20_Witness ==
    /\ last.op = "poll" /\ last.from = "ConnecterLocalClosed"
    /\ conn.tag = "LocalClosed" /\ conn.recv.buf # <<>> /\ conn.send.buf = <<>>
    /\ conn.local_closed_given /\ ~conn.remote_closed
    /\ kern.shutdowns = 1 /\ fdt.next = 2

\* ==================================================== the claims, C21 - C30
\* C21: a connect attempt of a Connecter that fails (connect returns an
\* error, or the pending socket reports a non-zero SO_ERROR) is recovered in
\* the poll that meets it: the program does not abort, the descriptor of the
\* attempt is removed from the notifier and closed, the result is a Connecter
\* without a socket, and an instant is added before any new attempt is made.
C21_FailedAttemptRecovered ==
    [][LET gone == {f \in Fds : fdt'.closes[f] > fdt.closes[f]}
       IN (/\ last'.op \in {"connect", "poll"}
           /\ last'.from \in {"Unborn", "Connecter"}
           /\ gone # {} \/ panicked' # "none") =>
              /\ panicked' = "none"
              /\ \A f \in gone :
                    /\ f \notin fdt'.open /\ f \notin notif'.fds
                    /\ fdt'.closes[f] = 1 /\ notif'.removes[f] = 1
              /\ conn'.tag = "Connecter" /\ conn'.fd = 0
              /\ fdt'.open = {}
              /\ notif'.instants > 0]_vars

\* C22: one poll of a Connecter, and one poll of a ConnecterLocalClosed,
\* ends: it returns a result, or the assert of its loop stops the program in
\* the iteration that makes count 1,000.  The loop never starts an iteration
\* after that one; the poll of a ConnecterLocalClosed needs at most two
\* iterations and is never stopped by the assert.
C22_PollTerminates ==
    /\ [](/\ loop_count <= RetryCap
          /\ last.op = "loop" => panicked = "none" /\ loop_count < RetryCap
          /\ panicked = "assertion failed: count < 1_000" <=> loop_count = RetryCap
          /\ last.from = "ConnecterLocalClosed" =>
                /\ loop_count <= 2
                /\ last.op = "loop" => loop_count <= 1)
    /\ <>[](last.op = "poll")

\* C22 witness: the kernel let every connect start and failed every one of
\* them afterwards, and the assert has stopped the poll in iteration 1,000.
C22_Witness ==
    /\ panicked = "assertion failed: count < 1_000" /\ loop_count = RetryCap
    /\ last.op = "poll" /\ last.from = "Connecter"

\* C23 as stated: a connection that a poll or a close has left in Closing
\* while the kernel reports unsent > 0 has an instant pending, added by that
\* call.
C23_ClosingUnsentHasTimer ==
    [][(last'.op \in {"poll", "close"} /\ last'.some /\ conn'.tag = "Closing"
           /\ Len(kern'.outbuf) > 0) =>
          /\ notif'.instants > 0
          /\ notif'.instants \in {notif.instants, notif.instants + 1}]_vars

\* C23 amended: the instant is added exactly when the connection is left in
\* Closing with shutdown(WRITE) given (the kernel then reports unsent > 0).
\* While the send ring still holds bytes the kernel would not take, no
\* shutdown has been given and the call adds no instant: the next poll is the
\* one the edge of the socket turning writable brings.
C23_ClosingShutHasTimer ==
    [][(last'.op \in {"poll", "close"} /\ last'.some /\ conn'.tag = "Closing") =>
          /\ conn'.local_closed_given =>
                /\ Len(kern'.outbuf) > 0 /\ conn'.send.buf = <<>>
                /\ kern'.shutdowns = 1
                /\ notif'.instants > 0
                /\ notif'.instants \in {notif.instants, notif.instants + 1}
          /\ ~conn'.local_closed_given =>
                /\ conn'.send.buf # <<>> /\ Len(kern'.outbuf) = SndBuf
                /\ kern'.shutdowns = 0
                /\ notif'.instants <= notif.instants]_vars

\* C23 witness: a poll has left the connection in Closing, shut down, with a
\* byte the peer has not acknowledged and the instant of that poll pending.
C23_Witness ==
    /\ conn.tag = "Closing" /\ conn.local_closed_given
    /\ last.op = "poll" /\ last.from = "Closing"
    /\ Len(kern.outbuf) > 0 /\ notif.instants = 1

\* ------------------------------------------------ a connection in Closing
\* The connection as RemoteClosed::close leaves it: the peer's EOF read and
\* the recv ring given up, n bytes sent by the user of which the kernel has
\* acknowledged d, holds o and the send ring holds the rest; the executor
\* may still hold queue() requests of the earlier sends.
InitClosing ==
    \E n \in 0..MaxSend, d \in 0..MaxSend, o \in 0..SndBuf, q \in 0..MaxQueued :
        /\ d + o <= n /\ n - (d + o) <= BUF
        /\ \E w \in {RemoteClosed_close(
                 [conn |-> Variant("RemoteClosed", 1,
                                   Ring([i \in 1..(n - (d + o)) |-> d + o + i]),
                                   NoRing, FALSE, FALSE),
                  kern |-> [FreshSocket EXCEPT !.established = TRUE, !.fin = TRUE,
                                !.delivered = [i \in 1..d |-> i],
                                !.outbuf = [i \in 1..o |-> d + i]],
                  fdt |-> [open |-> {1}, next |-> 2,
                           closes |-> [f \in Fds |-> 0], misuse |-> {}],
                  notif |-> [fds |-> {1}, adds |-> [f \in Fds |-> IF f = 1 THEN 1 ELSE 0],
                             removes |-> [f \in Fds |-> 0], instants |-> 0,
                             queued |-> q, edge |-> FALSE],
                  panicked |-> "none"], NoFault)} :
              /\ conn = w.conn /\ kern = w.kern /\ fdt = w.fdt
              /\ notif = w.notif /\ panicked = w.panicked
        /\ hist = [sent |-> [i \in 1..n |-> i], recvd |-> <<>>, peer |-> <<>>]
        /\ last = [op |-> "close", from |-> "RemoteClosed", some |-> TRUE]
        /\ peer = [conn |-> Unborn, kern |-> FreshSocket,
                   fdt |-> [open |-> {}, next |-> 1, closes |-> [f \in Fds |-> 0],
                            misuse |-> {}],
                   notif |-> [fds |-> {}, adds |-> [f \in Fds |-> 0],
                              removes |-> [f \in Fds |-> 0], instants |-> 0,
                              queued |-> 0, edge |-> FALSE],
                   panicked |-> "none", recvd |-> <<>>]
        /\ listener = NoListener
        /\ loop_count = 0

NextClosing == ScheduledPoll \/ EdgeKAck

SpecClosing == InitClosing /\ [][NextClosing]_vars

\* The notifier fires every FD edge and every added instant, and the kernel
\* goes on acknowledging what it holds.
SpecClosingFair ==
    SpecClosing /\ WF_vars(ScheduledPoll) /\ WF_vars(EdgeKAck)

\* C24: with every edge and instant delivered and the kernel acknowledging
\* what it holds, a connection in Closing ends Closed or Killed and stays
\* so; shutdown(WRITE) is issued by the poll that leaves the send ring
\* empty and by no other; and a poll that finds shutdown issued becomes
\* Closed exactly when the kernel reports unsent == 0.
C24_ClosingEnds ==
    /\ <>[](conn.tag \in {"Closed", "Killed"})
    /\ [][(last'.op = "poll" /\ conn.tag = "Closing" /\ panicked' = "none") =>
            /\ kern'.shutdowns > kern.shutdowns =>
                  /\ ~conn.local_closed_given
                  /\ kern'.shutdowns = 1 /\ ~kern'.shut_nonempty
                  /\ hist.sent = kern'.delivered \o kern'.outbuf
            /\ (conn'.tag = "Closing" /\ ~conn'.local_closed_given) =>
                  /\ read_available(conn'.send) > 0
                  /\ kern'.shutdowns = 0
            /\ (conn.local_closed_given /\ conn'.tag # "Killed") =>
                  (conn'.tag = "Closed" <=> kern.outbuf = <<>>)
            /\ conn'.tag = "Closed" =>
                  /\ kern'.shutdowns = 1 /\ kern'.outbuf = <<>>
                  /\ kern'.delivered = hist.sent]_vars

C24_Witness ==
    /\ conn.tag = "Closed" /\ last.op = "poll" /\ last.from = "Closing"
    /\ Len(hist.sent) = MaxSend /\ kern.delivered = hist.sent
    /\ kern.shutdowns = 1 /\ notif.removes[1] = 1

\* C25: a poll of a Connected that has already read the peer's EOF leaves
\* it Connected, remote_closed still set and the recv ring untouched, while
\* the recv ring holds unread bytes; with the recv ring drained the poll
\* returns RemoteClosed on the same FD, and the bytes the kernel holds
\* followed by those of the new send ring are the bytes held before, in
\* order.  (Killed is the result of a failing write.)  The poll that reads
\* the EOF itself stays Connected exactly when unread bytes remain.
C25_DrainThenRemoteClosed ==
    [][(last'.op = "poll" /\ conn.tag = "Connected" /\ panicked' = "none") =>
          /\ (conn.remote_closed /\ read_available(conn.recv) > 0) =>
                /\ conn'.tag \in {"Connected", "Killed"}
                /\ conn'.tag = "Connected" =>
                      /\ conn'.remote_closed /\ conn'.recv = conn.recv
                      /\ conn'.fd = conn.fd
          /\ (conn.remote_closed /\ read_available(conn.recv) = 0) =>
                /\ conn'.tag \in {"RemoteClosed", "Killed"}
                /\ conn'.tag = "RemoteClosed" =>
                      /\ conn'.fd = conn.fd /\ conn'.fd \in fdt'.open
                      /\ conn'.send.some /\ ~conn'.recv.some
                      /\ kern'.outbuf \o conn'.send.buf
                            = kern.outbuf \o conn.send.buf
                      /\ hist.sent
                            = kern'.delivered \o kern'.outbuf \o conn'.send.buf
          /\ (conn'.tag = "Connected" /\ conn'.remote_closed) =>
                read_available(conn'.recv) > 0
          /\ (conn'.tag = "RemoteClosed") =>
                read_available(conn.recv) = 0]_vars

C25_Witness ==
    /\ conn.tag = "RemoteClosed" /\ last.op = "poll" /\ last.from = "Connected"
    /\ read_available(conn.send) > 0 /\ kern.outbuf # <<>>
    /\ hist.recvd = hist.peer /\ Len(hist.recvd) = MaxPeerSend

\* ------------------------------------------------------------ the Listener
\* The world Listener::poll runs in.
LWorld == [conn |-> conn, kern |-> kern, fdt |-> fdt, notif |-> notif,
           panicked |-> panicked, lis |-> listener]

\* The kernel installs a new descriptor under the lowest free number.
LowestFree(w) ==
    CHOOSE f \in Fds \ w.fdt.open : \A g \in Fds \ w.fdt.open : f <= g

\* What a descriptor on the forwarding channel can be.
Forwardables == {"conn", "listen", "listen_blocking"}

\* accept()'s answers; ECONNABORTED stands for every error that is neither
\* EAGAIN nor EINVAL.
AcceptAnswers == {"ok", "EAGAIN", "EINVAL", "ECONNABORTED", "none"}

\* The descriptor the next turn of poll calls accept on.
Accepts_on(w) ==
    IF ~w.lis.is_socket_forwarder THEN "listen"
    ELSE IF w.lis.chan = <<>> THEN "none"
    ELSE Head(w.lis.chan)

\* The answers the kernel can give that call: EINVAL on a socket that is not
\* listening; on a listening one a waiting connection, or EAGAIN when none
\* waits (a blocking socket blocks instead), or an error.
KernelAccepts(w) ==
    LET on == Accepts_on(w)
        room == Cardinality(Fds \ w.fdt.open)
               - (IF w.lis.is_socket_forwarder THEN 1 ELSE 0)
    IN CASE on = "none" -> {"none"}
         [] on = "conn" -> {"EINVAL"}
         [] OTHER ->
              (IF w.lis.backlog > 0
               THEN (IF room > 0 THEN {"ok"} ELSE {})
               ELSE (IF on = "listen" THEN {"EAGAIN"} ELSE {}))
              \cup {"ECONNABORTED"}

\* palaver::socket::accept(fd, SOCK_CLOEXEC | SOCK_NONBLOCK)
accept(w, ans) ==
    IF ans = "ok"
    THEN [world |-> [w EXCEPT !.fdt.open = @ \cup {LowestFree(w)},
                             !.lis.backlog = @ - 1, !.lis.got = @ + 1],
          ok |-> TRUE, fd |-> LowestFree(w), err |-> "none"]
    ELSE [world |-> w, ok |-> FALSE, fd |-> 0, err |-> ans]

\* SocketForwardee(self.fd).recv() returning Ok(fd)
SocketForwardee_recv(w) ==
    [w EXCEPT !.fdt.open = @ \cup {LowestFree(w)},
              !.lis.chan = Tail(@), !.lis.got = @ + 1]

\* A slip: the test of accept's answer is inverted.
Listener_is_connection_inverted(ans) == ans # "EINVAL"

\* Listener::poll, forwardee mode: Err(EINVAL) => Ok(fd), the received
\* descriptor is a connection; every other answer takes the arm `x`.
Listener_is_connection(ans) == ans = "EINVAL"

\* A slip: the channel FD is left open and registered.
Listener_swap_keeps(w, f, nonblock) ==
    IF ~nonblock
    THEN [w EXCEPT !.panicked = "assertion failed: O_NONBLOCK"]
    ELSE [add_fd(w, f) EXCEPT !.lis.fd = f,
                              !.lis.is_socket_forwarder = FALSE,
                              !.lis.adopted = @ + 1]

\* Listener::poll, the arm `x`: the received descriptor f becomes the
\* listening FD.
Listener_swap(w, f, nonblock) ==
    LET w1 == close(remove_fd(w, w.lis.fd), w.lis.fd)
    IN IF ~nonblock
       THEN [w1 EXCEPT !.panicked = "assertion failed: O_NONBLOCK"]
       ELSE [add_fd(w1, f) EXCEPT !.lis.fd = f,
                                  !.lis.is_socket_forwarder = FALSE,
                                  !.lis.adopted = @ + 1]

\* Listener::poll, `let fd = ...`: the source of one turn of the loop.
Listener_source(w, ans) ==
    IF ~w.lis.is_socket_forwarder
    THEN accept(w, ans)
    ELSE IF w.lis.chan = <<>>
    THEN [world |-> w, ok |-> FALSE, fd |-> 0, err |-> "EAGAIN"]
    ELSE LET f == LowestFree(w)
             r == SocketForwardee_recv(w)
             x == accept(r, ans)
         IN IF Listener_is_connection(ans)
            THEN [world |-> r, ok |-> TRUE, fd |-> f, err |-> "none"]
            ELSE [x EXCEPT !.world =
                     Listener_swap(x.world, f, Head(w.lis.chan) = "listen")]

\* What the accept_hook and the two checks of a descriptor can answer.
Hooks == {"None", "Some"}

\* A slip: a diverted descriptor is yielded as well.
SocketForwarder_send_yields(w, f, ok) ==
    IF ok THEN [close(w, f) EXCEPT !.lis.diverted = @ + 1,
                                   !.lis.yielded = @ + 1,
                                   !.lis.out = "yielded"]
    ELSE [w EXCEPT !.panicked = "unwrap on Err"]

\* to.send(fd, false).unwrap(): sendmsg, then close of the local copy
SocketForwarder_send(w, f, ok) ==
    IF ok THEN [close(w, f) EXCEPT !.lis.diverted = @ + 1,
                                   !.lis.out = "diverted"]
    ELSE [w EXCEPT !.panicked = "unwrap on Err"]

\* Listener::poll, the arm Ok(fd): hook, getpeername and SO_ERROR
Listener_obtained(w, f, hook, good) ==
    IF hook = "Some"
    THEN SocketForwarder_send(w, f, good)
    ELSE IF good
    THEN [w EXCEPT !.lis.items = @ \cup {f}, !.lis.yielded = @ + 1,
                   !.lis.out = "yielded"]
    ELSE [close(w, f) EXCEPT !.lis.dropped = @ + 1, !.lis.out = "closed"]

\* Listener::poll: one turn of the loop of the iterator.  It yields an item,
\* or ends the iterator, or goes round again (out = diverted / closed).
Listener_poll(w, ans, hook, good) ==
    LET s == Listener_source([w EXCEPT !.lis.out = "none"], ans)
    IN IF s.world.panicked # "none" THEN s.world
       ELSE IF s.ok THEN Listener_obtained(s.world, s.fd, hook, good)
       ELSE IF s.err = "EAGAIN" THEN [s.world EXCEPT !.lis.out = "ended"]
       ELSE [s.world EXCEPT !.panicked = "Listener err"]

\* Listener::close
Listener_close(w) ==
    [close(remove_fd(w, w.lis.fd), w.lis.fd) EXCEPT !.lis.fd = 0]

\* Listener::with_fd or Listener::with_socket_forwardee on descriptor 1
InitListen ==
    /\ conn = Unborn
    /\ kern = FreshSocket
    /\ fdt = [open |-> {1}, next |-> 2, closes |-> [f \in Fds |-> 0],
              misuse |-> {}]
    /\ notif = [fds |-> {1}, adds |-> [f \in Fds |-> IF f = 1 THEN 1 ELSE 0],
                removes |-> [f \in Fds |-> 0], instants |-> 0, queued |-> 0,
                edge |-> FALSE]
    /\ hist = [sent |-> <<>>, recvd |-> <<>>, peer |-> <<>>]
    /\ panicked = "none"
    /\ last = [op |-> "init", from |-> "Unborn", some |-> FALSE]
    /\ peer = [conn |-> Unborn, kern |-> FreshSocket,
               fdt |-> [open |-> {}, next |-> 1, closes |-> [f \in Fds |-> 0],
                        misuse |-> {}],
               notif |-> [fds |-> {}, adds |-> [f \in Fds |-> 0],
                          removes |-> [f \in Fds |-> 0], instants |-> 0,
                          queued |-> 0, edge |-> FALSE],
               panicked |-> "none", recvd |-> <<>>]
    /\ \E fwd \in BOOLEAN :
          listener = [NoListener EXCEPT !.fd = 1, !.is_socket_forwarder = fwd]
    /\ loop_count = 0

\* A connection completes its handshake and waits on the listening socket.
ListenArrive ==
    /\ Running /\ listener.arrived < MaxArrive
    /\ listener' = [listener EXCEPT !.backlog = @ + 1, !.arrived = @ + 1]
    /\ last' = [last EXCEPT !.op = "kernel", !.from = conn.tag, !.some = FALSE]
    /\ UNCHANGED <<conn, kern, fdt, notif, hist, panicked, peer, loop_count>>

\* The other process sends a descriptor over the channel.
ListenForward ==
    /\ Running /\ listener.fd # 0 /\ listener.is_socket_forwarder
    /\ listener.forwarded < MaxForward
    /\ \E d \in Forwardables :
          listener' = [listener EXCEPT !.chan = Append(@, d),
                                       !.forwarded = @ + 1]
    /\ last' = [last EXCEPT !.op = "kernel", !.from = conn.tag, !.some = FALSE]
    /\ UNCHANGED <<conn, kern, fdt, notif, hist, panicked, peer, loop_count>>

\* One turn of the iterator Listener::poll returns.
ListenerTurn ==
    /\ Running /\ listener.fd # 0
    /\ listener.is_socket_forwarder /\ listener.chan # <<>> =>
          Fds \ fdt.open # {}
    /\ \E ans \in AcceptAnswers, hook \in Hooks, good \in BOOLEAN :
          /\ ans \in KernelAccepts(LWorld)
          /\ \E w \in {Listener_poll(LWorld, ans, hook, good)} :
                /\ fdt' = w.fdt /\ notif' = w.notif /\ panicked' = w.panicked
                /\ listener' = [w.lis EXCEPT !.rcv = IF listener.is_socket_forwarder
                                                    THEN Accepts_on(LWorld)
                                                    ELSE "none",
                                             !.ans = ans]
                /\ last' = [op |-> "turn", from |-> conn.tag,
                            some |-> w.lis.out = "yielded"]
    /\ UNCHANGED <<conn, kern, hist, peer, loop_count>>

\* The user takes a yielded item whose connection value replaces the
\* finished one; Promote then calls its closure.
ListenTake ==
    /\ Running /\ conn.tag \in {"Unborn", "Closed", "Killed"}
    /\ \E f \in listener.items, est \in BOOLEAN :
          /\ conn' = Variant("Accepted", f, NoRing, NoRing, FALSE, FALSE)
          /\ kern' = [FreshSocket EXCEPT !.established = est]
          /\ listener' = [listener EXCEPT !.items = @ \ {f}]
    /\ last' = [op |-> "accept", from |-> conn.tag, some |-> TRUE]
    /\ UNCHANGED <<fdt, notif, hist, panicked, peer, loop_count>>

ListenerClose ==
    /\ Running /\ listener.fd # 0
    /\ \E w \in {Listener_close(LWorld)} :
          /\ fdt' = w.fdt /\ notif' = w.notif /\ listener' = w.lis
    /\ last' = [op |-> "close", from |-> conn.tag, some |-> TRUE]
    /\ UNCHANGED <<conn, kern, hist, panicked, peer, loop_count>>

NextListen ==
    \/ ListenArrive \/ ListenForward \/ ListenerTurn \/ ListenerClose
    \/ ListenTake \/ Promote \/ Kill

SpecListen == InitListen /\ [][NextListen]_vars

\* C26 as stated: a descriptor received over the channel is adopted as the
\* listening socket exactly when accept() on it returns EINVAL.
C26_ListeningIffEinval ==
    [][(last'.op = "turn" /\ listener'.rcv # "none") =>
          (listener'.adopted > listener.adopted <=> listener'.ans = "EINVAL")]_vars

\* C26: accept() on a received descriptor returns EINVAL exactly when the
\* descriptor is not a listening socket, and then the Listener keeps its
\* channel and hands the descriptor on as an accepted connection (to the
\* hook, then yielded or closed); on every other answer the channel FD is
\* closed and the descriptor, when it is non-blocking, becomes the
\* listening FD.
C26_ConnectionIffEinval ==
    [][(last'.op = "turn" /\ listener'.rcv # "none") =>
          /\ listener'.ans = "EINVAL" <=> listener'.rcv = "conn"
          /\ listener'.ans = "EINVAL" =>
                /\ listener'.adopted = listener.adopted
                /\ listener'.fd = listener.fd /\ listener'.is_socket_forwarder
                /\ listener.fd \in fdt'.open /\ listener.fd \in notif'.fds
                /\ panicked' = "none" =>
                      listener'.out \in {"yielded", "diverted", "closed"}
          /\ listener'.ans # "EINVAL" =>
                /\ listener.fd \notin fdt'.open /\ listener.fd \notin notif'.fds
                /\ listener'.rcv = "listen" =>
                      /\ listener'.adopted = listener.adopted + 1
                      /\ ~listener'.is_socket_forwarder
                      /\ listener'.fd # listener.fd
                      /\ listener'.fd \in fdt'.open
                /\ listener'.rcv = "listen_blocking" =>
                      panicked' = "assertion failed: O_NONBLOCK"]_vars

C26_Witness ==
    /\ last.op = "turn" /\ listener.rcv = "listen" /\ listener.ans = "EAGAIN"
    /\ listener.adopted = 1 /\ listener.out = "ended"
    /\ listener.yielded = 1 /\ listener.chan = <<>>

\* C27: the turn of poll that receives a non-blocking listening descriptor
\* L2 removes the channel FD from the notifier and closes it, each once,
\* registers L2 and makes it the Listener's FD with is_socket_forwarder
\* cleared; is_socket_forwarder never turns true again; a turn in normal
\* mode leaves the channel alone and takes a connection only from the
\* listening socket's backlog; no descriptor is closed twice or used after
\* its close, no closed descriptor stays registered, and every open
\* descriptor is the Listener's, a yielded item's or the connection's.
C27_ForwardedListenerTakeover ==
    /\ [][(last'.op = "turn" /\ listener'.rcv = "listen") =>
             /\ listener.is_socket_forwarder /\ ~listener'.is_socket_forwarder
             /\ notif'.removes[listener.fd] = notif.removes[listener.fd] + 1
             /\ fdt'.closes[listener.fd] = fdt.closes[listener.fd] + 1
             /\ listener.fd \notin fdt'.open /\ listener.fd \notin notif'.fds
             /\ listener'.fd \notin fdt.open /\ listener'.fd \in fdt'.open
             /\ listener'.fd \in notif'.fds
             /\ notif'.adds[listener'.fd] = notif.adds[listener'.fd] + 1
             /\ listener'.adopted = listener.adopted + 1]_vars
    /\ [][~listener.is_socket_forwarder => ~listener'.is_socket_forwarder]_vars
    /\ [][(last'.op = "turn" /\ ~listener.is_socket_forwarder) =>
             /\ listener'.chan = listener.chan /\ listener'.rcv = "none"
             /\ listener'.fd = listener.fd
             /\ listener'.got > listener.got =>
                   /\ listener'.got = listener.got + 1
                   /\ listener'.backlog = listener.backlog - 1]_vars
    /\ [](/\ fdt.misuse = {}
          /\ listener.adopted <= 1
          /\ panicked = "none" =>
                /\ notif.fds \subseteq fdt.open
                /\ fdt.open = (IF listener.fd # 0 THEN {listener.fd} ELSE {})
                              \cup listener.items
                              \cup (IF conn.fd # 0 THEN {conn.fd} ELSE {}))

C27_Witness ==
    /\ listener.adopted = 1 /\ listener.fd = 0 /\ last.op = "close"
    /\ listener.yielded = MaxArrive /\ fdt.open = listener.items
    /\ fdt.closes[1] = 1 /\ fdt.closes[2] = 1
    /\ notif.removes[1] = 1 /\ notif.removes[2] = 1

\* C28: every descriptor Listener::poll has obtained, by accept or from the
\* channel, has met exactly one fate: diverted (sent on and closed here, no
\* item yielded), yielded once as an item that owns it, closed after the
\* getpeername / SO_ERROR check, or adopted as the listening FD.  A turn
\* ends the iterator exactly when its source answers EAGAIN, and when the
\* promote closure returns a state other than Killed that state's FD, the
\* one the item owned, is registered with the notifier.
C28_EveryDescriptorOneFate ==
    /\ [](panicked = "none" =>
             /\ listener.got = listener.diverted + listener.yielded
                               + listener.dropped + listener.adopted
             /\ listener.items \subseteq fdt.open
             /\ listener.fd \notin listener.items)
    /\ [][(last'.op = "turn" /\ panicked' = "none") =>
             /\ listener'.out = "diverted" =>
                   /\ listener'.diverted = listener.diverted + 1
                   /\ listener'.yielded = listener.yielded
                   /\ listener'.dropped = listener.dropped
                   /\ listener'.items = listener.items
                   /\ fdt'.open \ {listener'.fd} \subseteq fdt.open
             /\ listener'.out = "yielded" =>
                   /\ listener'.yielded = listener.yielded + 1
                   /\ listener'.diverted = listener.diverted
                   /\ listener'.dropped = listener.dropped
                   /\ listener.items \subseteq listener'.items
                   /\ Cardinality(listener'.items)
                         = Cardinality(listener.items) + 1
                   /\ (listener'.items \ listener.items) \cap fdt.open = {}
             /\ listener'.out = "closed" =>
                   /\ listener'.dropped = listener.dropped + 1
                   /\ listener'.yielded = listener.yielded
                   /\ listener'.diverted = listener.diverted
                   /\ listener'.items = listener.items
                   /\ fdt'.open \ {listener'.fd} \subseteq fdt.open
             /\ listener'.out = "ended" <=>
                   \/ listener'.ans = "EAGAIN"
                   \/ listener.is_socket_forwarder /\ listener.chan = <<>>
             /\ listener'.out = "ended" =>
                   /\ listener'.items = listener.items
                   /\ listener'.got = listener.got
                                      + (listener'.adopted - listener.adopted)
             /\ listener'.out \in {"diverted", "yielded", "closed", "ended"}]_vars
    /\ [][(last'.op = "promote" /\ panicked' = "none"
           /\ conn'.tag # "Killed") =>
             /\ conn.tag = "Accepted" /\ conn'.fd = conn.fd
             /\ conn'.fd \in fdt'.open /\ conn'.fd \in notif'.fds
             /\ notif'.adds[conn.fd] = notif.adds[conn.fd] + 1]_vars

C28_Witness ==
    /\ listener.diverted = 1 /\ listener.yielded = 1 /\ listener.dropped = 1
    /\ listener.adopted = 1 /\ listener.got = 4
    /\ last.op = "promote" /\ conn.tag \in {"Connectee", "Connected"}
    /\ conn.fd \in notif.fds /\ panicked = "none"

\* C29: a poll of Connected or LocalClosed that returns a state has written
\* the send ring to the FD as far as the kernel takes it, then read the FD
\* into the recv ring as far as the ring takes it (unless the EOF was read
\* before), and only then decided: LocalClosed issues shutdown(WRITE) in the
\* poll whose flush empties the send ring, and the state stays exactly when
\* no EOF has been read or the recv ring, after the read, holds bytes.  A
\* poll that returns Killed has either written all the flush writes or has
\* written and read nothing.
C29_FlushReadThenTest ==
    [][(last'.op = "poll" /\ conn.tag \in {"Connected", "LocalClosed"}
        /\ panicked' = "none") =>
          LET n == Min(Len(conn.send.buf), SndBuf - Len(kern.outbuf))
              flushed == kern.outbuf \o SubSeq(conn.send.buf, 1, n)
              m == IF conn.remote_closed THEN 0 ELSE write_from_fd_n(World)
              rc == conn.remote_closed \/ write_from_fd_eof(World)
              recv == conn.recv.buf \o SubSeq(kern.inbuf, 1, m)
          IN IF conn'.tag = "Killed"
             THEN \/ kern'.outbuf = flushed
                  \/ kern'.outbuf = kern.outbuf /\ kern'.inbuf = kern.inbuf
             ELSE /\ kern'.outbuf = flushed
                  /\ kern'.inbuf = SubSeq(kern.inbuf, m + 1, Len(kern.inbuf))
                  /\ conn'.tag = conn.tag <=> (~rc \/ Len(recv) > 0)
                  /\ conn'.tag = conn.tag =>
                        /\ conn'.recv.buf = recv /\ conn'.remote_closed = rc
                        /\ conn'.send.buf
                              = SubSeq(conn.send.buf, n + 1, Len(conn.send.buf))
                  /\ conn'.tag # conn.tag =>
                        conn'.tag \in (IF conn.tag = "Connected"
                                       THEN {"RemoteClosed"}
                                       ELSE {"Closing", "Closed"})
                  /\ kern'.shutdowns = kern.shutdowns + 1 <=>
                        /\ conn.tag = "LocalClosed"
                        /\ ~conn.local_closed_given
                        /\ n = Len(conn.send.buf)
                  /\ kern'.shutdowns \in {kern.shutdowns, kern.shutdowns + 1}]_vars

C29_Witness ==
    /\ last.op = "poll" /\ last.from = "LocalClosed" /\ conn.tag = "Closing"
    /\ kern.shutdowns = 1 /\ kern.outbuf # <<>> /\ conn.local_closed_given
    /\ hist.recvd = hist.peer /\ Len(hist.peer) = MaxPeerSend
    /\ Len(hist.sent) = MaxSend

\* C30: on the socket of a connection shutdown(WRITE) is issued at most
\* once and never with bytes in the send ring; from then on the send ring
\* stays empty, the connection is in none of the states that offer send,
\* send returns no capability, and the bytes the kernel has been given
\* (acknowledged or not) never grow.
C30_ShutdownOnceThenSilent ==
    /\ [](/\ kern.shutdowns <= 1
          /\ ~kern.shut_nonempty /\ ~kern.wrote_after_shut
          /\ kern.shutdowns = 1 =>
                /\ conn.tag \in {"LocalClosed", "Closing", "Closed", "Killed"}
                /\ ~sendable(conn) /\ ~Connection_send_some(conn)
                /\ read_available(conn.send) = 0)
    /\ [][kern.shutdowns = 1 =>
             /\ kern'.shutdowns = 1
             /\ hist'.sent = hist.sent
             /\ last'.op = "send" => ~last'.some
             /\ kern'.delivered \o kern'.outbuf
                   = kern.delivered \o kern.outbuf]_vars

C30_Witness ==
    /\ kern.shutdowns = 1 /\ last.op = "send" /\ ~last.some
    /\ conn.tag = "Closing" /\ kern.outbuf # <<>>
    /\ Len(hist.sent) = MaxSend

\* C31 as stated: for every descriptor the calls of add_fd and remove_fd are
\* paired (never more removals than additions, never two additions without
\* a removal between), a registered descriptor is open, and a descriptor is
\* closed at most once.
C31_RegistrationsPaired ==
    \A f \in Fds :
        /\ notif.removes[f] <= notif.adds[f]
        /\ notif.adds[f] <= notif.removes[f] + 1
        /\ f \in notif.fds <=> notif.adds[f] = notif.removes[f] + 1
        /\ f \in notif.fds => f \in fdt.open
        /\ fdt.closes[f] <= 1

\* C32 as stated: a connection never has more than one added instant that
\* has not fired.
C32_AtMostOneInstant == notif.instants <= 1

\* C33 as stated: after a closer has run the connection is never closable
\* or sendable; Connecter and Connectee are never returned to once left;
\* Connected is entered only out of the connecting states; and a recv ring
\* appears only in the promotion ConnecterLocalClosed / ConnecteeLocalClosed
\* -> LocalClosed.
C33_Irreversible ==
    [][conn.tag \notin {"Unborn", "Accepted"} =>
          /\ (last'.op = "close" /\ last'.some /\ last' # last) =>
                ~closable(conn') /\ ~sendable(conn')
          /\ (~closable(conn) /\ ~sendable(conn)) =>
                ~closable(conn') /\ ~sendable(conn')
          /\ conn.tag \notin {"Connecter", "Connectee"} =>
                conn'.tag \notin {"Connecter", "Connectee"}
          /\ (conn.tag # "Connected" /\ conn'.tag = "Connected") =>
                conn.tag \in {"Connecter", "Connectee"}
          /\ (~conn.recv.some /\ conn'.recv.some) =>
                /\ conn.tag \in {"ConnecterLocalClosed", "ConnecteeLocalClosed"}
                /\ conn'.tag = "LocalClosed"]_vars

\* C33: the same, with the establishment of the connection among the steps
\* that bring a recv ring: Connecter / Connectee -> Connected by a poll, and
\* Connecter / Connectee -> LocalClosed by a close that finds the socket
\* connected.
C33_IrreversibleButEstablish ==
    [][conn.tag \notin {"Unborn", "Accepted"} =>
          /\ (last'.op = "close" /\ last'.some /\ last' # last) =>
                ~closable(conn') /\ ~sendable(conn')
          /\ (~closable(conn) /\ ~sendable(conn)) =>
                ~closable(conn') /\ ~sendable(conn')
          /\ conn.tag \notin {"Connecter", "Connectee"} =>
                conn'.tag \notin {"Connecter", "Connectee"}
          /\ (conn.tag # "Connected" /\ conn'.tag = "Connected") =>
                /\ conn.tag \in {"Connecter", "Connectee"}
                /\ last'.op = "poll"
          /\ (~conn.recv.some /\ conn'.recv.some) =>
                \/ /\ conn.tag \in {"ConnecterLocalClosed", "ConnecteeLocalClosed"}
                   /\ conn'.tag = "LocalClosed" /\ last'.op = "poll"
                \/ /\ conn.tag \in {"Connecter", "Connectee"}
                   /\ conn'.tag = "Connected" /\ last'.op = "poll"
                \/ /\ conn.tag \in {"Connecter", "Connectee"}
                   /\ conn'.tag = "LocalClosed" /\ last'.op = "close"
          /\ (conn.recv.some /\ ~conn'.recv.some) =>
                conn'.tag \in {"RemoteClosed", "Closing", "Closed", "Killed"}]_vars

C33_Witness ==
    /\ conn.tag = "LocalClosed" /\ conn.recv.some
    /\ last.op = "poll" /\ last.from = "ConnecterLocalClosed"

\* ------------------------------------- two endpoints, closes and kills free
\* Either end closes whenever Connection::close returns its closure.
PairCloseAny ==
    /\ PairRunning
    /\ \/ /\ closable(peer.conn) /\ peer.conn.tag # "Accepted"
          /\ PeerBecomes(Connection_close(peer, NoFault))
       \/ /\ closable(conn)
          /\ \E flt \in PairFaults(World) :
                Becomes(Connection_close(World, flt), "close", TRUE)
          /\ UNCHANGED hist

\* Either end kills whenever Connection::kill returns its closure.
PairKillAny ==
    /\ PairRunning
    /\ \/ /\ killable(peer.conn) /\ peer.conn.tag # "Accepted"
          /\ PeerBecomes(Connection_kill(peer))
       \/ /\ killable(conn)
          /\ Becomes(Connection_kill(World), "kill", TRUE)
          /\ UNCHANGED hist

\* TCP: the close of B's socket reaches A, as a FIN or as a reset.
PairClosedToA ==
    /\ PairRunning /\ peer.fdt.open # {}
    /\ ~peer.kern.fin /\ ~peer.kern.reset
    /\ fdt.next > 1 /\ fdt.open = {}
    /\ \E rst \in BOOLEAN :
          peer' = [peer EXCEPT !.kern.fin = ~rst, !.kern.reset = rst]
    /\ UNCHANGED <<conn, kern, fdt, notif, hist, panicked, last, listener, loop_count>>

NextDuplex ==
    \/ PairSetup \/ PairFinToA \/ PairResetToB
    \/ PairCloseAny \/ PairKillAny \/ PairClosedToA

SpecDuplex == Init /\ [][NextDuplex]_vars

\* C34: what A has obtained through recv is a prefix of what B has passed
\* to send, and so is, while A holds a recv ring, what it has obtained
\* followed by what waits in the ring and in its socket;
\* and once A has recorded B's EOF (remote_closed set, or a state past it)
\* its recv ring never gains a byte and its socket holds none to read.
C34_RecvPrefixOfSent ==
    /\ [](LET got == peer.recvd \o peer.conn.recv.buf \o peer.kern.inbuf
          IN /\ peer.conn.recv.some =>
                   /\ Len(got) <= Len(hist.sent)
                   /\ got = SubSeq(hist.sent, 1, Len(got))
             /\ Len(peer.recvd) <= Len(hist.sent)
             /\ peer.recvd = SubSeq(hist.sent, 1, Len(peer.recvd)))
    /\ [][(peer.conn.remote_closed
           \/ peer.conn.tag \in {"RemoteClosed", "Closing", "Closed", "Killed"}) =>
             /\ Len(peer'.conn.recv.buf) <= Len(peer.conn.recv.buf)
             /\ peer'.recvd # peer.recvd =>
                   /\ peer.conn.recv.buf # <<>>
                   /\ peer'.recvd = Append(peer.recvd, Head(peer.conn.recv.buf))
             /\ peer'.conn.tag \notin {"Connecter", "Connectee", "Accepted",
                                       "Unborn"}]_vars

C34_Witness ==
    /\ peer.recvd = hist.sent /\ Len(hist.sent) = MaxSend
    /\ peer.conn.tag = "LocalClosed" /\ peer.conn.remote_closed
    /\ conn.tag \in {"Closing", "Closed"}
====
